---- MODULE Spec2Model ----
(***************************************************************************)
(* Hashline tools (read_hashline / edit_hashline): line references by      *)
(* content fingerprint, the three-tier reference resolver and the          *)
(* edit-application engine, modelled from the extension's source.          *)
(***************************************************************************)
EXTENDS Integers, Sequences, FiniteSets, TLC

\* ------------------------------------------------------------------------
\* Bounds of the model
\* ------------------------------------------------------------------------
MaxFileLines == 3
MaxBufLines == 3
MaxEdits == 2
MaxNewLines == 1
MaxScanLines == 12
MaxMatches == 3
MaxRaceEdits == 1
MaxToggles == 2

\* ------------------------------------------------------------------------
\* Program constants
\* ------------------------------------------------------------------------
nearbyRange == 10
Infinity == 1000000
NegInfinity == 0 - Infinity

\* Result of Map.get on a missing key, and of a failed parse
Undefined == "undefined"
Null == [isNull |-> TRUE]

\* ------------------------------------------------------------------------
\* Texts and fingerprints
\* ------------------------------------------------------------------------
\* Line texts of the files read from disk
FileTexts == {"a", "b"}
\* Texts the caller writes
NewTexts == {"c"}
\* A text with an embedded line break; a text with the md5 prefix of "a"
TwoLineText == "a\nb"
CollidingText == "wbsiz"
Texts == FileTexts \cup NewTexts \cup {"", TwoLineText, CollidingText}

\* A fingerprint that mixes the line number in: even positions hash like ""
generateLineHash_Positional(content, lineNumber) ==
    CASE lineNumber % 2 = 0 /\ lineNumber > 0 -> "d41d8c"
      [] OTHER ->
            CASE content = "" -> "d41d8c"
              [] content = "a" -> "0cc175"
              [] content = "b" -> "92eb5f"
              [] content = "c" -> "4a8a08"
              [] content = "wbsiz" -> "0cc175"
              [] content = "a\nb" -> "8cdeb4"

\* md5(content).substring(0, 6); the line number takes no part
generateLineHash(content, lineNumber) ==
    CASE content = "" -> "d41d8c"
      [] content = "a" -> "0cc175"
      [] content = "b" -> "92eb5f"
      [] content = "c" -> "4a8a08"
      [] content = CollidingText -> "0cc175"
      [] content = TwoLineText -> "8cdeb4"

\* A six-hex-character value that is the fingerprint of no text of the model
AbsentHash == "ffffff"
Hashes == {generateLineHash(t, 0) : t \in Texts} \cup {AbsentHash}

\* ------------------------------------------------------------------------
\* Sequence helpers (Array.prototype.slice / splice, Math.min / Math.max)
\* ------------------------------------------------------------------------
Min(a, b) == IF a <= b THEN a ELSE b
Max(a, b) == IF a >= b THEN a ELSE b

\* lines.slice(from, to) with 0-indexed, end-exclusive bounds; a negative
\* bound counts back from the end of the array
Slice(s, from, to) ==
    LET lo == IF from < 0 THEN Max(Len(s) + from, 0) ELSE Min(from, Len(s))
        end == IF to < 0 THEN Max(Len(s) + to, 0) ELSE Min(to, Len(s))
        hi == Max(lo, end)
    IN  [i \in 1..(hi - lo) |-> s[lo + i]]

\* ------------------------------------------------------------------------
\* Hash index
\* ------------------------------------------------------------------------
\* hashIndex.get(i)
IndexGet(idx, i) == IF i \in DOMAIN idx THEN idx[i] ELSE Undefined

\* The rebuild leaving alone the entries the index already has
RebuildIndex_KeepOld(idx, ls) ==
    [i \in (DOMAIN idx) \cup (1..Len(ls)) |->
        IF i \in DOMAIN idx THEN idx[i] ELSE generateLineHash(ls[i], i)]

\* for (i = 0; i < lines.length; i++) hashIndex.set(i + 1, hash(lines[i]));
\* entries beyond lines.length are not removed
RebuildIndex(idx, ls) ==
    [i \in (DOMAIN idx) \cup (1..Len(ls)) |->
        IF i <= Len(ls) THEN generateLineHash(ls[i], i) ELSE idx[i]]

EmptyIndex == [i \in {} |-> Undefined]

\* ------------------------------------------------------------------------
\* Reference tokens
\* ------------------------------------------------------------------------
\* A token "<num>:<hex>" is held as its two parts; NotDigits stands for a
\* number part that is not a run of decimal digits.
NotDigits == 0 - 1

\* The hex digits of a fingerprint written in upper case, and back
ToUpperHex(h) ==
    CASE h = "d41d8c" -> "D41D8C"
      [] h = "0cc175" -> "0CC175"
      [] h = "92eb5f" -> "92EB5F"
      [] h = "4a8a08" -> "4A8A08"
      [] h = "8cdeb4" -> "8CDEB4"
      [] h = "ffffff" -> "FFFFFF"
      [] OTHER -> h
ToLowerHex(h) ==
    CASE h = "D41D8C" -> "d41d8c"
      [] h = "0CC175" -> "0cc175"
      [] h = "92EB5F" -> "92eb5f"
      [] h = "4A8A08" -> "4a8a08"
      [] h = "8CDEB4" -> "8cdeb4"
      [] h = "FFFFFF" -> "ffffff"
      [] OTHER -> h

\* [a-f0-9]{6} under the i flag
SixHex == Hashes \cup {ToUpperHex(h) : h \in Hashes}
Token(n, h) == [num |-> n, hex |-> h]

\* The parse accepting every token
parseLineHash_Lenient(tok) == [lineNumber |-> tok.num, hash |-> tok.hex]

\* ref.match(/^(\d+):([a-f0-9]{6})$/i)
parseLineHash(tok) ==
    IF tok.num = NotDigits \/ tok.hex \notin SixHex
    THEN Null
    ELSE [lineNumber |-> tok.num, hash |-> tok.hex]

\* ------------------------------------------------------------------------
\* Reference resolver
\* ------------------------------------------------------------------------
RECURSIVE ScanCandidates(_, _, _, _)
\* for (i = from; i <= to; i++) if (hashIndex.get(i) === hash) push(i)
ScanCandidates(idx, hash, from, to) ==
    IF from > to THEN <<>>
    ELSE (IF IndexGet(idx, from) = hash THEN <<from>> ELSE <<>>)
         \o ScanCandidates(idx, hash, from + 1, to)

Resolved(n) == [ok |-> TRUE, lineNumber |-> n, error |-> "none", candidates |-> <<>>]

\* The error naming no candidate
ResolveError_NoCandidates(kind, cands) ==
    [ok |-> FALSE, lineNumber |-> 0, error |-> kind, candidates |-> <<>>]

\* throw new Error(`Ambiguous reference ... at lines: ${candidates.join(", ")}`)
\* or `Hash not found ...`
ResolveError(kind, cands) ==
    [ok |-> FALSE, lineNumber |-> 0, error |-> kind, candidates |-> cands]

\* The exact-match test, never taken
ExactMatch_Off(ref, idx) == FALSE

\* const exactHash = hashIndex.get(lineNumber); exactHash === hash
ExactMatch(ref, idx) == IndexGet(idx, ref.lineNumber) = ref.hash
SelfModified(ref, mod) == ref.lineNumber \in mod
nearbyStart(ref) == Max(1, ref.lineNumber - nearbyRange)
nearbyEnd(ref, ls) == Min(Len(ls), ref.lineNumber + nearbyRange)

\* The first search scanning the whole buffer
nearbyCandidates_WholeBuffer(ref, ls, idx) ==
    ScanCandidates(idx, ref.hash, 1, Len(ls))

nearbyCandidates(ref, ls, idx) ==
    ScanCandidates(idx, ref.hash, nearbyStart(ref), nearbyEnd(ref, ls))
globalCandidates(ref, ls, idx) == ScanCandidates(idx, ref.hash, 1, Len(ls))

\* The resolver taking the first candidate instead of throwing
resolveLineHash_PickFirst(ref, ls, idx, mod) ==
    IF ExactMatch(ref, idx) THEN Resolved(ref.lineNumber)
    ELSE IF SelfModified(ref, mod) THEN Resolved(ref.lineNumber)
    ELSE LET near == nearbyCandidates(ref, ls, idx)
             glob == globalCandidates(ref, ls, idx)
         IN  IF Len(near) >= 1 THEN Resolved(near[1])
             ELSE IF Len(glob) >= 1 THEN Resolved(glob[1])
             ELSE ResolveError("not_found", <<>>)

resolveLineHash(ref, ls, idx, mod) ==
    IF ExactMatch(ref, idx) THEN Resolved(ref.lineNumber)
    ELSE IF SelfModified(ref, mod) THEN Resolved(ref.lineNumber)
    ELSE LET near == nearbyCandidates(ref, ls, idx)
             glob == globalCandidates(ref, ls, idx)
         IN  IF Len(near) = 1 THEN Resolved(near[1])
             ELSE IF Len(near) > 1 THEN ResolveError("ambiguous_nearby", near)
             ELSE IF Len(glob) = 1 THEN Resolved(glob[1])
             ELSE IF Len(glob) > 1 THEN ResolveError("ambiguous_global", glob)
             ELSE ResolveError("not_found", <<>>)

\* ------------------------------------------------------------------------
\* File content: a sequence of chunks, each a non-empty text without line
\* break or the line break NL; no two texts are adjacent.
\* ------------------------------------------------------------------------
NL == "\n"

\* The characters of one text, as chunks
TextChunks(t) ==
    CASE t = "" -> <<>>
      [] t = TwoLineText -> <<"a", NL, "b">>
      [] OTHER -> <<t>>

RECURSIVE JoinLines(_)
\* lines.join("\n")
JoinLines(ls) ==
    IF Len(ls) = 0 THEN <<>>
    ELSE IF Len(ls) = 1 THEN TextChunks(ls[1])
    ELSE TextChunks(ls[1]) \o <<NL>> \o JoinLines(Tail(ls))

RECURSIVE SplitFrom(_, _, _)
\* buffer.split("\n"): cur is the text collected since the last line break
SplitFrom(content, i, cur) ==
    IF i > Len(content) THEN <<cur>>
    ELSE IF content[i] = NL THEN <<cur>> \o SplitFrom(content, i + 1, "")
    ELSE SplitFrom(content, i + 1, content[i])

\* The split dropping an empty last line
SplitLines_DropLastEmpty(content) ==
    LET ls == SplitFrom(content, 1, "")
    IN  IF Len(ls) > 1 /\ ls[Len(ls)] = ""
        THEN SubSeq(ls, 1, Len(ls) - 1) ELSE ls

\* buffer.split("\n")
SplitLines(content) == SplitFrom(content, 1, "")

\* ------------------------------------------------------------------------
\* File precondition
\* ------------------------------------------------------------------------
MAX_FILE_SIZE == 52428800
BINARY_EXTENSIONS ==
    {".jpg", ".jpeg", ".png", ".gif", ".bmp", ".ico", ".svg", ".webp",
     ".pdf", ".zip", ".tar", ".gz", ".rar", ".7z",
     ".exe", ".dll", ".so", ".dylib", ".bin",
     ".mp3", ".mp4", ".wav", ".ogg", ".flac", ".avi", ".mov",
     ".doc", ".docx", ".xls", ".xlsx", ".ppt", ".pptx"}

\* String.prototype.toLowerCase on the extensions of the model
ToLowerCase(ext) == IF ext = ".PNG" THEN ".png" ELSE ext

isLikelyBinary(ext) == ToLowerCase(ext) \in BINARY_EXTENSIONS

\* "ok", or the error thrown
validateFileForReading(size, ext) ==
    IF size > MAX_FILE_SIZE THEN "too_large"
    ELSE IF isLikelyBinary(ext) THEN "binary"
    ELSE "ok"

\* ------------------------------------------------------------------------
\* Edit operations on the in-memory state of one call
\*   st = [lines, hashIndex, modifiedLines, minAffectedLine, maxAffectedLine]
\* Each returns [err, st]: err = "none" and the new state, or the error
\* thrown and the state untouched.
\* ------------------------------------------------------------------------
Threw(kind, st) == [err |-> kind, st |-> st]
Applied(st) == [err |-> "none", st |-> st]

\* The bounds test, never taken
OutOfRange_Off(n, ls) == FALSE

\* lineNumber < 1 || lineNumber > lines.length
OutOfRange(n, ls) == n < 1 \/ n > Len(ls)

\* Range verification loop: lines of [s, e] outside modifiedLines whose
\* recomputed hash differs from the index entry
MismatchedLines(st, s, e) ==
    {i \in s..e : /\ i \notin st.modifiedLines
                  /\ generateLineHash(st.lines[i], i) # IndexGet(st.hashIndex, i)}

\* modifiedLines.add(lineNumber), dropped
MarkModified_Skip(mod, lineNumber) == mod

\* modifiedLines.add(lineNumber)
MarkModified(mod, lineNumber) == mod \cup {lineNumber}

\* hashIndex.set(lineNumber, ...), dropped
PatchIndex_Skip(idx, lineNumber, text) == idx

\* hashIndex.set(lineNumber, generateLineHash(newText, lineNumber))
PatchIndex(idx, lineNumber, text) ==
    [i \in (DOMAIN idx) \cup {lineNumber} |->
        IF i = lineNumber THEN generateLineHash(text, lineNumber) ELSE idx[i]]

\* replace_line writing lines[lineNumber] instead of lines[lineNumber - 1]
ReplaceLine_OffByOne(edit, st) ==
    LET ref == parseLineHash(edit.lineHash) IN
    IF ref = Null THEN Threw("invalid_format", st)
    ELSE
    LET resolved == resolveLineHash(ref, st.lines, st.hashIndex, st.modifiedLines)
        lineNumber == resolved.lineNumber
    IN  IF ~resolved.ok THEN Threw(resolved.error, st)
        ELSE IF OutOfRange(lineNumber, st.lines) THEN Threw("out_of_range", st)
        ELSE Applied(
            [lines |-> [st.lines EXCEPT ![lineNumber + 1] = edit.newText],
             modifiedLines |-> MarkModified(st.modifiedLines, lineNumber),
             minAffectedLine |-> Min(st.minAffectedLine, lineNumber),
             maxAffectedLine |-> Max(st.maxAffectedLine, lineNumber),
             hashIndex |-> PatchIndex(st.hashIndex, lineNumber, edit.newText)])

\* case "replace_line"
ReplaceLine(edit, st) ==
    LET ref == parseLineHash(edit.lineHash) IN
    IF ref = Null THEN Threw("invalid_format", st)
    ELSE
    LET resolved == resolveLineHash(ref, st.lines, st.hashIndex, st.modifiedLines)
        lineNumber == resolved.lineNumber
    IN  IF ~resolved.ok THEN Threw(resolved.error, st)
        ELSE IF OutOfRange(lineNumber, st.lines) THEN Threw("out_of_range", st)
        ELSE Applied(
            [lines |-> [st.lines EXCEPT ![lineNumber] = edit.newText],
             modifiedLines |-> MarkModified(st.modifiedLines, lineNumber),
             minAffectedLine |-> Min(st.minAffectedLine, lineNumber),
             maxAffectedLine |-> Max(st.maxAffectedLine, lineNumber),
             hashIndex |-> PatchIndex(st.hashIndex, lineNumber, edit.newText)])

\* Parse, resolve and validate the two references of a range operation:
\* [err, start, end]
ResolveRange(edit, st) ==
    LET startRef == parseLineHash(edit.startHash)
        endRef == parseLineHash(edit.endHash)
    IN
    IF startRef = Null \/ endRef = Null
    THEN [err |-> "invalid_format", start |-> 0, end |-> 0]
    ELSE
    LET resolvedStart ==
            resolveLineHash(startRef, st.lines, st.hashIndex, st.modifiedLines)
        resolvedEnd ==
            resolveLineHash(endRef, st.lines, st.hashIndex, st.modifiedLines)
        s == resolvedStart.lineNumber
        e == resolvedEnd.lineNumber
    IN  IF ~resolvedStart.ok
        THEN [err |-> resolvedStart.error, start |-> 0, end |-> 0]
        ELSE IF ~resolvedEnd.ok
        THEN [err |-> resolvedEnd.error, start |-> 0, end |-> 0]
        ELSE IF OutOfRange(s, st.lines)
        THEN [err |-> "out_of_range", start |-> s, end |-> e]
        ELSE IF e < s \/ e > Len(st.lines)
        THEN [err |-> "out_of_range", start |-> s, end |-> e]
        ELSE IF MismatchedLines(st, s, e) # {}
        THEN [err |-> "hash_mismatch", start |-> s, end |-> e]
        ELSE [err |-> "none", start |-> s, end |-> e]

\* The splice leaving the modified set as it was
Spliced_KeepModified(st, newLs, lo, hi) ==
    [lines |-> newLs,
     modifiedLines |-> st.modifiedLines,
     minAffectedLine |-> Min(st.minAffectedLine, lo),
     maxAffectedLine |-> Max(st.maxAffectedLine, hi),
     hashIndex |-> RebuildIndex(st.hashIndex, newLs)]

\* The state after a splice that produced newLs: index rebuilt, modified
\* set cleared, affected bounds widened to [lo, hi]
Spliced(st, newLs, lo, hi) ==
    [lines |-> newLs,
     modifiedLines |-> {},
     minAffectedLine |-> Min(st.minAffectedLine, lo),
     maxAffectedLine |-> Max(st.maxAffectedLine, hi),
     hashIndex |-> RebuildIndex(st.hashIndex, newLs)]

ReplaceRange(edit, st) ==
    LET r == ResolveRange(edit, st) IN
    IF r.err # "none" THEN Threw(r.err, st)
    ELSE LET before == Slice(st.lines, 0, r.start - 1)
             after == Slice(st.lines, r.end, Len(st.lines))
         IN  Applied(Spliced(st, before \o edit.newLines \o after,
                             r.start, r.start + Len(edit.newLines)))

\* insert_after splicing the new lines in before the anchor line
InsertAfter_Before(edit, st) ==
    LET ref == parseLineHash(edit.lineHash) IN
    IF ref = Null THEN Threw("invalid_format", st)
    ELSE
    LET resolved == resolveLineHash(ref, st.lines, st.hashIndex, st.modifiedLines)
        lineNumber == resolved.lineNumber
    IN  IF ~resolved.ok THEN Threw(resolved.error, st)
        ELSE IF OutOfRange(lineNumber, st.lines) THEN Threw("out_of_range", st)
        ELSE LET before == Slice(st.lines, 0, lineNumber - 1)
                 after == Slice(st.lines, lineNumber - 1, Len(st.lines))
             IN  Applied(Spliced(st, before \o edit.newLines \o after,
                                 lineNumber + 1,
                                 lineNumber + Len(edit.newLines)))

\* case "insert_after"
InsertAfter(edit, st) ==
    LET ref == parseLineHash(edit.lineHash) IN
    IF ref = Null THEN Threw("invalid_format", st)
    ELSE
    LET resolved == resolveLineHash(ref, st.lines, st.hashIndex, st.modifiedLines)
        lineNumber == resolved.lineNumber
    IN  IF ~resolved.ok THEN Threw(resolved.error, st)
        ELSE IF OutOfRange(lineNumber, st.lines) THEN Threw("out_of_range", st)
        ELSE LET before == Slice(st.lines, 0, lineNumber)
                 after == Slice(st.lines, lineNumber, Len(st.lines))
             IN  Applied(Spliced(st, before \o edit.newLines \o after,
                                 lineNumber + 1,
                                 lineNumber + Len(edit.newLines)))

DeleteLine(edit, st) ==
    LET ref == parseLineHash(edit.lineHash) IN
    IF ref = Null THEN Threw("invalid_format", st)
    ELSE
    LET resolved == resolveLineHash(ref, st.lines, st.hashIndex, st.modifiedLines)
        lineNumber == resolved.lineNumber
    IN  IF ~resolved.ok THEN Threw(resolved.error, st)
        ELSE IF OutOfRange(lineNumber, st.lines) THEN Threw("out_of_range", st)
        ELSE Applied(Spliced(st,
                 Slice(st.lines, 0, lineNumber - 1)
                     \o Slice(st.lines, lineNumber, Len(st.lines)),
                 lineNumber, lineNumber + 5))

DeleteRange(edit, st) ==
    LET r == ResolveRange(edit, st) IN
    IF r.err # "none" THEN Threw(r.err, st)
    ELSE Applied(Spliced(st,
             Slice(st.lines, 0, r.start - 1)
                 \o Slice(st.lines, r.end, Len(st.lines)),
             r.start, r.start + 5))

\* switch (edit.type)
ApplyEditOp(edit, st) ==
    CASE edit.type = "replace_line" -> ReplaceLine(edit, st)
      [] edit.type = "replace_range" -> ReplaceRange(edit, st)
      [] edit.type = "insert_after" -> InsertAfter(edit, st)
      [] edit.type = "delete_line" -> DeleteLine(edit, st)
      [] edit.type = "delete_range" -> DeleteRange(edit, st)

\* ------------------------------------------------------------------------
\* State
\* ------------------------------------------------------------------------
VARIABLES
    disk,               \* content of the file on disk
    fileSize, fileExt,  \* stat size and extension of the file
    seen,               \* lines of the file when read_hashline last showed it
    aborted,            \* "no", or where the call was when the signal fired
    pc,                 \* position of the edit_hashline call
    edits,              \* the edit list, when drawn up front
    k,                  \* operations applied so far
    lines, hashIndex, modifiedLines, minAffectedLine, maxAffectedLine,
    error,              \* error thrown by the call, "none" otherwise
    writes,             \* writeFile calls completed by the call
    disk0,              \* content of the file when the call was made
    sinceSplice,        \* positions replace_line wrote since the last splice
    sinceCount,         \* ... since the last change of the line count
    resolveRef, resolveOut, \* argument and result of a resolver call
    readParams, readOut,    \* parameters and output lines of a read_hashline call
    peer,               \* a second edit_hashline call on the same file
    hashlineEnabled,    \* the flag of the hashline mode
    configFile,         \* hashline-config.json: "absent", "on" or "off"
    hashlineStatus,     \* the "hashline" status entry the UI shows
    loadPc, loadContent,    \* position of loadConfig, and what readFile got
    togglePc, toggleWrite,  \* position of the /hashline handler, its pending write
    toggles,            \* /hashline commands completed
    sessionPc,          \* position of the session_start handler
    updPc,              \* position of the /update-pi handler
    updStatus,          \* the "pi-updater" status entry
    pkgManager,         \* what detectPackageManager returned, "null" if nothing
    npmAvailable,       \* what isCommandAvailable("npm") returned
    currentVersion, latestVersion,  \* what the two version lookups returned
    newer,              \* what isNewer returned
    answerNpm, answerUpdate,        \* the answers to the two confirmations
    installs,           \* update commands executed: their command lines
    updNotice           \* the last notification of the handler

callState == <<lines, hashIndex, modifiedLines, minAffectedLine, maxAffectedLine>>
ghosts == <<disk0, sinceSplice, sinceCount>>
resolverVars == <<resolveRef, resolveOut>>
readVars == <<readParams, readOut>>
fileVars == <<fileSize, fileExt, seen>>
modeVars == <<hashlineEnabled, configFile, hashlineStatus, loadPc, loadContent,
              togglePc, toggleWrite, toggles, sessionPc>>
updVars == <<updPc, updStatus, pkgManager, npmAvailable, currentVersion,
             latestVersion, newer, answerNpm, answerUpdate, installs, updNotice>>
hostVars == <<modeVars, updVars>>
toolVars == <<disk, fileSize, fileExt, seen, aborted, pc, edits, k,
              lines, hashIndex, modifiedLines, minAffectedLine, maxAffectedLine,
              error, writes, disk0, sinceSplice, sinceCount, resolveRef,
              resolveOut, readParams, readOut, peer>>
vars == <<disk, fileSize, fileExt, seen, aborted, pc, edits, k,
          lines, hashIndex, modifiedLines, minAffectedLine, maxAffectedLine,
          error, writes, disk0, sinceSplice, sinceCount, resolveRef, resolveOut,
          readParams, readOut, peer, hashlineEnabled, configFile,
          hashlineStatus, loadPc, loadContent, togglePc, toggleWrite, toggles,
          sessionPc, updPc, updStatus, pkgManager, npmAvailable, currentVersion,
          latestVersion, newer, answerNpm, answerUpdate, installs, updNotice>>

\* The in-memory state of the call as one record
State ==
    [lines |-> lines, hashIndex |-> hashIndex, modifiedLines |-> modifiedLines,
     minAffectedLine |-> minAffectedLine, maxAffectedLine |-> maxAffectedLine]

\* ------------------------------------------------------------------------
\* Inputs
\* ------------------------------------------------------------------------
SeqsUpTo(S, n) == UNION {[1..m -> S] : m \in 0..n}

Files == SeqsUpTo(FileTexts, MaxFileLines) \ {<<>>}
NewLineSeqs == SeqsUpTo(NewTexts, MaxNewLines)

RefNums == 1..MaxBufLines
RefHexes == {generateLineHash(t, 0) : t \in FileTexts}
BadTokens == {Token(1, "0cc17")}
Tokens == {Token(n, h) : n \in RefNums, h \in RefHexes} \cup BadTokens

ReplaceLineEdits ==
    {[type |-> "replace_line", lineHash |-> t, newText |-> x] :
        t \in Tokens, x \in NewTexts}
ReplaceRangeEdits ==
    {[type |-> "replace_range", startHash |-> t, endHash |-> u, newLines |-> n] :
        t \in Tokens, u \in Tokens, n \in NewLineSeqs}
InsertAfterEdits ==
    {[type |-> "insert_after", lineHash |-> t, newLines |-> n] :
        t \in Tokens, n \in NewLineSeqs}
DeleteLineEdits == {[type |-> "delete_line", lineHash |-> t] : t \in Tokens}
DeleteRangeEdits ==
    {[type |-> "delete_range", startHash |-> t, endHash |-> u] :
        t \in Tokens, u \in Tokens}
EditDomain ==
    ReplaceLineEdits \cup ReplaceRangeEdits \cup InsertAfterEdits
        \cup DeleteLineEdits \cup DeleteRangeEdits

\* The token read_hashline shows for line n of a file with the lines ls
ReadToken(ls, n) == Token(n, generateLineHash(ls[n], n))

\* ------------------------------------------------------------------------
\* Initial state: a file on disk that read_hashline has shown, no call yet
\* ------------------------------------------------------------------------
InitCall(f, size, ext, eds) ==
    /\ disk = JoinLines(f)
    /\ seen = f
    /\ fileSize = size
    /\ fileExt = ext
    /\ aborted = "no"
    /\ pc = "idle"
    /\ edits = eds
    /\ k = 0
    /\ lines = <<>>
    /\ hashIndex = EmptyIndex
    /\ modifiedLines = {}
    /\ minAffectedLine = Infinity
    /\ maxAffectedLine = NegInfinity
    /\ error = "none"
    /\ writes = 0
    /\ disk0 = disk
    /\ sinceSplice = {}
    /\ sinceCount = {}
    /\ resolveRef = Null
    /\ resolveOut = Null
    /\ readParams = Null
    /\ readOut = Null

\* let hashlineEnabled = false; loadConfig() has been called and its readFile
\* is pending; no command and no session yet; the config file holds "off"
ModeInit(file) ==
    /\ hashlineEnabled = FALSE
    /\ configFile = file
    /\ hashlineStatus = Undefined
    /\ loadPc = "reading"
    /\ loadContent = Undefined
    /\ togglePc = "idle"
    /\ toggleWrite = Undefined
    /\ toggles = 0
    /\ sessionPc = "idle"

\* No /update-pi command has been run
UpdInit ==
    /\ updPc = "idle"
    /\ updStatus = Undefined
    /\ pkgManager = Undefined
    /\ npmAvailable = Undefined
    /\ currentVersion = <<>>
    /\ latestVersion = <<>>
    /\ newer = Undefined
    /\ answerNpm = "none"
    /\ answerUpdate = "none"
    /\ installs = <<>>
    /\ updNotice = "none"

HostInit == ModeInit("off") /\ UpdInit

\* No second call
InitWith(f, size, ext, eds) ==
    InitCall(f, size, ext, eds) /\ peer = Null /\ HostInit

Init ==
    \E f \in Files :
        \E size \in {MAX_FILE_SIZE, MAX_FILE_SIZE + 1} :
            \E ext \in {".ts", ".PNG"} : InitWith(f, size, ext, <<>>)

\* ------------------------------------------------------------------------
\* edit_hashline.execute
\* ------------------------------------------------------------------------
signalAborted == aborted # "no"

\* The host fires the abort signal; the call can observe it only after one
\* of its awaits (stat, readFile, writeFile), the edit loop is synchronous
Cancel ==
    /\ aborted = "no"
    /\ pc \in {"idle", "stat", "read", "write"}
    /\ aborted' = pc
    /\ UNCHANGED <<disk, fileVars, pc, edits, k, callState, error,
                   writes, ghosts, resolverVars, readVars, peer, hostVars>>

\* Entry of the call
EditEntry ==
    /\ pc = "idle"
    /\ IF signalAborted
       THEN pc' = "aborted" /\ error' = "aborted"
       ELSE pc' = "stat" /\ error' = error
    /\ disk0' = disk
    /\ UNCHANGED <<disk, fileVars, aborted, edits, k, callState, writes,
                   sinceSplice, sinceCount, resolverVars, readVars, peer,
                   hostVars>>

\* await validateFileForReading(absolutePath)
StatDone ==
    /\ pc = "stat"
    /\ LET v == validateFileForReading(fileSize, fileExt)
       IN  IF v = "ok"
           THEN pc' = "read" /\ error' = error
           ELSE pc' = "failed" /\ error' = v
    /\ UNCHANGED <<disk, fileVars, aborted, edits, k, callState,
                   writes, ghosts, resolverVars, readVars, peer, hostVars>>

\* await readFile; split; build the index; empty modified set and bounds
ReadDone ==
    /\ pc = "read"
    /\ lines' = SplitLines(disk)
    /\ hashIndex' = RebuildIndex(EmptyIndex, SplitLines(disk))
    /\ modifiedLines' = {}
    /\ minAffectedLine' = Infinity
    /\ maxAffectedLine' = NegInfinity
    /\ pc' = "loop"
    /\ UNCHANGED <<disk, fileVars, aborted, edits, k, error, writes,
                   ghosts, resolverVars, readVars, peer, hostVars>>

\* The line a single-reference operation resolves to
TargetLine(edit, st) ==
    resolveLineHash(parseLineHash(edit.lineHash), st.lines, st.hashIndex,
                    st.modifiedLines).lineNumber

\* Top of a loop iteration with the signal aborted
LoopAbort ==
    /\ pc = "loop"
    /\ k < MaxEdits
    /\ signalAborted
    /\ pc' = "aborted"
    /\ error' = "aborted"
    /\ UNCHANGED <<disk, fileVars, aborted, edits, k, callState,
                   writes, ghosts, resolverVars, readVars, peer, hostVars>>

\* The operation went through and the buffer is written out at once
StepApplied_WriteThrough(edit, r) ==
    /\ Len(r.st.lines) <= MaxBufLines
    /\ lines' = r.st.lines
    /\ hashIndex' = r.st.hashIndex
    /\ modifiedLines' = r.st.modifiedLines
    /\ minAffectedLine' = r.st.minAffectedLine
    /\ maxAffectedLine' = r.st.maxAffectedLine
    /\ k' = k + 1
    /\ sinceSplice' =
         IF edit.type = "replace_line"
         THEN sinceSplice \cup {TargetLine(edit, State)}
         ELSE {}
    /\ sinceCount' =
         IF Len(r.st.lines) # Len(lines) THEN {}
         ELSE IF edit.type = "replace_line"
         THEN sinceCount \cup {TargetLine(edit, State)}
         ELSE sinceCount
    /\ disk' = JoinLines(r.st.lines)
    /\ writes' = writes + 1
    /\ UNCHANGED <<pc, error>>

\* The operation went through: take over the new in-memory state
StepApplied(edit, r) ==
    /\ Len(r.st.lines) <= MaxBufLines
    /\ lines' = r.st.lines
    /\ hashIndex' = r.st.hashIndex
    /\ modifiedLines' = r.st.modifiedLines
    /\ minAffectedLine' = r.st.minAffectedLine
    /\ maxAffectedLine' = r.st.maxAffectedLine
    /\ k' = k + 1
    /\ sinceSplice' =
         IF edit.type = "replace_line"
         THEN sinceSplice \cup {TargetLine(edit, State)}
         ELSE {}
    /\ sinceCount' =
         IF Len(r.st.lines) # Len(lines) THEN {}
         ELSE IF edit.type = "replace_line"
         THEN sinceCount \cup {TargetLine(edit, State)}
         ELSE sinceCount
    /\ UNCHANGED <<pc, error, disk, writes>>

\* The operation threw, and the buffer is flushed to the file on the way out
StepThrew_Flush(r) ==
    /\ pc' = "failed"
    /\ error' = r.err
    /\ disk' = JoinLines(lines)
    /\ writes' = writes + 1
    /\ UNCHANGED <<k, callState, sinceSplice, sinceCount>>

\* The operation threw: the call ends with the error, nothing is written
StepThrew(r) ==
    /\ pc' = "failed"
    /\ error' = r.err
    /\ UNCHANGED <<k, callState, sinceSplice, sinceCount, disk, writes>>

\* One loop iteration on the operation edit
EditStep(edit) ==
    /\ pc = "loop"
    /\ k < MaxEdits
    /\ ~signalAborted
    /\ \E r \in {ApplyEditOp(edit, State)} :
          IF r.err = "none" THEN StepApplied(edit, r) ELSE StepThrew(r)
    /\ UNCHANGED <<disk0, fileVars, aborted, edits, resolverVars, readVars,
                   peer, hostVars>>

\* The list is exhausted: lines.join and the call of writeFile
LoopEnd ==
    /\ pc = "loop"
    /\ pc' = "write"
    /\ UNCHANGED <<disk, fileVars, aborted, edits, k, callState,
                   error, writes, ghosts, resolverVars, readVars, peer,
                   hostVars>>

\* writeFile leaving alone a file that changed since the call was made
WriteDone_FirstWins ==
    /\ pc = "write"
    /\ disk' = IF disk = disk0 THEN JoinLines(lines) ELSE disk
    /\ writes' = writes + 1
    /\ pc' = "done"
    /\ UNCHANGED <<fileVars, aborted, edits, k, callState, error,
                   ghosts, resolverVars, readVars, peer, hostVars>>

\* writeFile completes
WriteDone ==
    /\ pc = "write"
    /\ disk' = JoinLines(lines)
    /\ writes' = writes + 1
    /\ pc' = "done"
    /\ UNCHANGED <<fileVars, aborted, edits, k, callState, error,
                   ghosts, resolverVars, readVars, peer, hostVars>>

Next ==
    \/ Cancel
    \/ EditEntry
    \/ StatDone
    \/ ReadDone
    \/ LoopAbort
    \/ \E edit \in EditDomain : EditStep(edit)
    \/ LoopEnd
    \/ WriteDone

Spec == Init /\ [][Next]_vars

TypeOK ==
    /\ pc \in {"idle", "stat", "read", "loop", "write", "done", "failed", "aborted",
              "shown", "read_failed", "r_stat", "r_read"}
    /\ k \in 0..MaxEdits
    /\ Len(lines) <= MaxBufLines

\* ------------------------------------------------------------------------
\* Properties of the edit call
\* ------------------------------------------------------------------------
\* The current fingerprint of every line of the buffer
LineHashes(ls) == {generateLineHash(ls[i], i) : i \in 1..Len(ls)}

\* The reference token an operation resolves first
FirstToken(edit) ==
    IF edit.type \in {"replace_range", "delete_range"}
    THEN edit.startHash ELSE edit.lineHash

\* Every reference token of the operation is well-formed
TokensParse(edit) ==
    IF edit.type \in {"replace_range", "delete_range"}
    THEN parseLineHash(edit.startHash) # Null /\ parseLineHash(edit.endHash) # Null
    ELSE parseLineHash(edit.lineHash) # Null

\* C1: a call in which an operation (or the precondition) fails performs no
\* write: the file on disk is what it was when the call was made, however
\* many earlier operations of the batch went through in memory.
C1_AllOrNothing ==
    pc = "failed" => (writes = 0 /\ disk = disk0)

\* A failure after earlier operations changed the buffer in memory
C1_Witness ==
    /\ pc = "failed"
    /\ k >= 1
    /\ JoinLines(lines) # disk
    /\ error \in {"not_found", "ambiguous_nearby", "out_of_range", "invalid_format"}

\* C4: whenever the loop is about to consult the index, the entry of every
\* line 1..lines.length is the fingerprint of that line of the buffer.
C4_IndexMatchesBuffer ==
    pc = "loop" =>
        \A i \in 1..Len(lines) :
            IndexGet(hashIndex, i) = generateLineHash(lines[i], i)

\* An index that was rebuilt after a splice and then patched by replace_line
C4_Witness ==
    /\ pc = "loop"
    /\ k >= 2
    /\ modifiedLines # {}
    /\ Len(lines) # Len(seen)
    /\ \E i \in modifiedLines :
          i \in DOMAIN seen /\ IndexGet(hashIndex, i) # generateLineHash(seen[i], i)
\* The lines 1..Len(ls) whose text is t
Occurrences(ls, t) == {i \in 1..Len(ls) : ls[i] = t}

\* What the resolver answers, in the current state of the call, to the
\* reference (n, h)
ResolveNow(n, h) ==
    resolveLineHash([lineNumber |-> n, hash |-> h], lines, hashIndex, modifiedLines)

\* C2: the token read for line n of the file, when the text of that line
\* occurs exactly once in the buffer and at another position p than n,
\* resolves to p, after any sequence of earlier operations of the batch.
C2_ShiftedReferenceResolves ==
    pc = "loop" =>
        \A n \in 1..Len(seen) : \A p \in Occurrences(lines, seen[n]) :
            (Occurrences(lines, seen[n]) = {p} /\ p # n)
                => ResolveNow(n, generateLineHash(seen[n], n)) = Resolved(p)

\* C7 as stated: a position replace_line wrote, with no change of the line
\* count since, resolves to itself for a token whose hash no longer matches.
C7_OverrideUntilCountChanges ==
    pc = "loop" =>
        \A p \in sinceCount : \A h \in Hashes :
            IndexGet(hashIndex, p) # h => ResolveNow(p, h) = Resolved(p)

\* C7 amended: a position replace_line wrote, with no replace_range,
\* insert_after, delete_line or delete_range since (whether or not it changed
\* the line count), resolves to itself for a token whose hash no longer
\* matches the index.
C7_OverrideUntilSplice ==
    pc = "loop" =>
        \A p \in sinceSplice : \A h \in Hashes :
            IndexGet(hashIndex, p) # h => ResolveNow(p, h) = Resolved(p)

\* A line of the file overwritten with a text of another fingerprint, so
\* that the token read for it no longer matches the index
C7_Witness ==
    /\ pc = "loop"
    /\ \E p \in sinceSplice :
          /\ p \in DOMAIN seen
          /\ lines[p] # seen[p]
          /\ IndexGet(hashIndex, p) # generateLineHash(seen[p], p)
          /\ ResolveNow(p, generateLineHash(seen[p], p)) = Resolved(p)

\* C8: an operation with well-formed tokens whose (first) reference carries
\* a fingerprint that no line of the buffer has, and a line number outside
\* the modified set, fails with the not-found error, in every state of a
\* batch.
C8_AbsentHashIsNotFound ==
    pc = "loop" =>
        \A edit \in EditDomain :
            LET ref == parseLineHash(FirstToken(edit)) IN
            (/\ TokensParse(edit)
             /\ ref.hash \notin LineHashes(lines)
             /\ ref.lineNumber \notin modifiedLines)
                => ApplyEditOp(edit, State).err = "not_found"

\* C10: once the signal fired before the final write was issued (before
\* entry, during stat or during the file read), the call does not reach the
\* write.
C10_CancelledCallDoesNotWrite ==
    aborted \in {"idle", "stat", "read"} => (pc \notin {"write", "done"} /\ writes = 0)

\* ------------------------------------------------------------------------
\* The resolver on its own: one call on a buffer long enough for lines to
\* lie outside the window of nearbyRange lines
\* ------------------------------------------------------------------------
\* Buffers of "b" lines with at most MaxMatches "a" lines
ScanBuffers ==
    {[i \in 1..len |-> IF i \in P THEN "a" ELSE "b"] :
        <<len, P>> \in {q \in (1..MaxScanLines) \X SUBSET (1..MaxScanLines) :
                          /\ q[2] \subseteq 1..q[1]
                          /\ Cardinality(q[2]) <= MaxMatches}}

\* Entries a longer buffer left in the index past the end of the buffer
StaleEntries(len) ==
    {EmptyIndex, [i \in {len + 1} |-> generateLineHash("a", i)]}

InitResolve ==
    /\ \E ls \in ScanBuffers :
          /\ lines = ls
          /\ \E stale \in StaleEntries(Len(ls)) :
                hashIndex = RebuildIndex(stale, ls)
          /\ \E n \in 0..(Len(ls) + 1) :
                /\ \E h \in {generateLineHash("a", 0), generateLineHash("b", 0),
                             AbsentHash,
                             ToUpperHex(generateLineHash("a", 0))} :
                      resolveRef = [lineNumber |-> n, hash |-> h]
                /\ modifiedLines \in
                      {{}} \cup {{m} : m \in {n, 1} \cap (1..Len(ls))}
          /\ disk = JoinLines(ls)
          /\ seen = ls
    /\ fileSize = MAX_FILE_SIZE
    /\ fileExt = ".ts"
    /\ aborted = "no"
    /\ pc = "resolve"
    /\ edits = <<>>
    /\ k = 0
    /\ minAffectedLine = Infinity
    /\ maxAffectedLine = NegInfinity
    /\ error = "none"
    /\ writes = 0
    /\ disk0 = disk
    /\ sinceSplice = {}
    /\ sinceCount = {}
    /\ resolveOut = Null
    /\ readParams = Null
    /\ readOut = Null
    /\ peer = Null
    /\ HostInit

\* resolveLineHash(ref, lines, hashIndex, modifiedLines)
ResolveCall ==
    /\ pc = "resolve"
    /\ resolveOut' =
           resolveLineHash(resolveRef, lines, hashIndex, modifiedLines)
    /\ pc' = "resolved"
    /\ UNCHANGED <<disk, fileVars, aborted, edits, k, callState, error,
                   writes, ghosts, resolveRef, readVars, peer, hostVars>>

NextResolve == ResolveCall

SpecResolve == InitResolve /\ [][NextResolve]_vars

\* Lines of the window of the reference whose text has the reference's hash
WindowMatches(ref, ls) ==
    {i \in nearbyStart(ref)..nearbyEnd(ref, ls) :
        generateLineHash(ls[i], i) = ref.hash}

SeqRange(q) == {q[i] : i \in 1..Len(q)}

\* C3 as stated: two or more lines of the window with the reference's
\* fingerprint always make the resolution fail as ambiguous, listing them.
C3_WindowDuplicatesAlwaysAmbiguous ==
    (pc = "resolved" /\ Cardinality(WindowMatches(resolveRef, lines)) >= 2)
        => /\ ~resolveOut.ok
           /\ resolveOut.error = "ambiguous_nearby"
           /\ SeqRange(resolveOut.candidates) = WindowMatches(resolveRef, lines)

\* C3 amended: when the index entry at the recorded line number differs
\* from the reference's hash and that line number is not in the modified
\* set, two or more lines of the window with the reference's fingerprint
\* make the resolution fail as ambiguous, listing exactly those lines.
C3_SearchNeverGuesses ==
    (/\ pc = "resolved"
     /\ IndexGet(hashIndex, resolveRef.lineNumber) # resolveRef.hash
     /\ resolveRef.lineNumber \notin modifiedLines
     /\ Cardinality(WindowMatches(resolveRef, lines)) >= 2)
        => /\ ~resolveOut.ok
           /\ resolveOut.error = "ambiguous_nearby"
           /\ SeqRange(resolveOut.candidates) = WindowMatches(resolveRef, lines)

\* An ambiguity in the window while a further match lies outside of it
C3_Witness ==
    /\ pc = "resolved"
    /\ resolveOut.error = "ambiguous_nearby"
    /\ Len(resolveOut.candidates) = 2
    /\ \E i \in 1..Len(lines) :
          /\ generateLineHash(lines[i], i) = resolveRef.hash
          /\ i \notin WindowMatches(resolveRef, lines)

\* C6: when the index entry at the recorded line number equals the
\* reference's hash, the resolver returns that line number, whatever other
\* lines carry the fingerprint and whatever the modified set holds.
C6_ExactMatchFastPath ==
    (pc = "resolved" /\ IndexGet(hashIndex, resolveRef.lineNumber) = resolveRef.hash)
        => resolveOut = Resolved(resolveRef.lineNumber)

\* An exact match with further matches in the window and a modified line
C6_Witness ==
    /\ pc = "resolved"
    /\ IndexGet(hashIndex, resolveRef.lineNumber) = resolveRef.hash
    /\ Cardinality(WindowMatches(resolveRef, lines)) >= 3
    /\ modifiedLines # {}
    /\ resolveOut = Resolved(resolveRef.lineNumber)

\* ------------------------------------------------------------------------
\* Edit lists built from the tokens read_hashline showed
\* ------------------------------------------------------------------------
FreshText == "c"

ReadRangeEdits(ls) ==
    {[type |-> "replace_range", startHash |-> ReadToken(ls, s),
      endHash |-> ReadToken(ls, e), newLines |-> n] :
        <<s, e, n>> \in {q \in (1..Len(ls)) \X (1..Len(ls)) \X {<<FreshText>>} :
                           q[1] < q[2]}}
    \cup
    {[type |-> "delete_range", startHash |-> ReadToken(ls, s),
      endHash |-> ReadToken(ls, e)] :
        <<s, e>> \in {q \in (1..Len(ls)) \X (1..Len(ls)) : q[1] < q[2]}}

ReadEdits(ls) ==
    {[type |-> "replace_line", lineHash |-> ReadToken(ls, n), newText |-> FreshText] :
        n \in 1..Len(ls)}
    \cup {[type |-> "insert_after", lineHash |-> ReadToken(ls, n),
           newLines |-> <<FreshText>>] : n \in 1..Len(ls)}
    \cup {[type |-> "delete_line", lineHash |-> ReadToken(ls, n)] : n \in 1..Len(ls)}
    \cup ReadRangeEdits(ls)

\* ------------------------------------------------------------------------
\* The call on an edit list drawn up front
\* ------------------------------------------------------------------------
InitBatch ==
    \E f \in Files :
        \E eds \in SeqsUpTo(ReadEdits(f), MaxEdits) :
            InitWith(f, MAX_FILE_SIZE, ".ts", eds)

\* The loop taking the operations from the far end of the list
CurrentEdit_Reversed == edits[Len(edits) - k]

\* for (const edit of edits): the operation of iteration k + 1
CurrentEdit == edits[k + 1]

BatchAbort == k < Len(edits) /\ LoopAbort
BatchStep == k < Len(edits) /\ EditStep(CurrentEdit)
BatchEnd == k = Len(edits) /\ LoopEnd

NextBatch ==
    \/ Cancel
    \/ EditEntry
    \/ StatDone
    \/ ReadDone
    \/ BatchAbort
    \/ BatchStep
    \/ BatchEnd
    \/ WriteDone

SpecBatch == InitBatch /\ [][NextBatch]_vars

\* The in-memory state right after the file was read
StateAfterRead(content) ==
    [lines |-> SplitLines(content),
     hashIndex |-> RebuildIndex(EmptyIndex, SplitLines(content)),
     modifiedLines |-> {},
     minAffectedLine |-> Infinity,
     maxAffectedLine |-> NegInfinity]

RECURSIVE ApplyInOrder(_, _)
\* The operations of eds applied one after another, each to the state the
\* one before it produced, stopping at the first that throws
ApplyInOrder(eds, st) ==
    IF eds = <<>> THEN Applied(st)
    ELSE LET r == ApplyEditOp(Head(eds), st)
         IN  IF r.err # "none" THEN r ELSE ApplyInOrder(Tail(eds), r.st)

Reverse(q) == [i \in 1..Len(q) |-> q[Len(q) + 1 - i]]

\* C5: at the top of iteration k + 1 the buffer, index, modified set and
\* bounds are those produced by operations 1..k applied in list order; a
\* call that throws in the loop throws what the in-order application
\* throws, and the content written at the end is the buffer of the in-order
\* application of the whole list.
C5_AppliedInListOrder ==
    /\ pc = "loop" =>
          ApplyInOrder(SubSeq(edits, 1, k), StateAfterRead(disk0)) = Applied(State)
    /\ (pc = "failed" /\ k < Len(edits)) =>
          ApplyInOrder(edits, StateAfterRead(disk0)).err = error
    /\ pc = "done" =>
          /\ ApplyInOrder(edits, StateAfterRead(disk0)).err = "none"
          /\ disk = JoinLines(ApplyInOrder(edits, StateAfterRead(disk0)).st.lines)

\* A written batch of two or more operations whose order matters
C5_Witness ==
    /\ pc = "done"
    /\ Len(edits) >= 2
    /\ LET rev == ApplyInOrder(Reverse(edits), StateAfterRead(disk0))
       IN  rev.err # "none" \/ JoinLines(rev.st.lines) # disk

\* ------------------------------------------------------------------------
\* The call on a file another program changed after read_hashline showed it
\* ------------------------------------------------------------------------
\* One line of the file is overwritten between the read and the edit call
OutOfBand ==
    /\ pc = "idle"
    /\ disk = JoinLines(seen)
    /\ \E i \in 1..Len(seen) : \E t \in (FileTexts \cup {FreshText}) \ {seen[i]} :
          disk' = JoinLines([seen EXCEPT ![i] = t])
    /\ UNCHANGED <<fileVars, aborted, pc, edits, k, callState, error, writes,
                   ghosts, resolverVars, readVars, peer, hostVars>>

InitStale == \E f \in Files : InitWith(f, MAX_FILE_SIZE, ".ts", <<>>)

NextStale ==
    \/ OutOfBand
    \/ Cancel
    \/ EditEntry
    \/ StatDone
    \/ ReadDone
    \/ LoopAbort
    \/ \E edit \in ReadEdits(seen) : EditStep(edit)
    \/ LoopEnd
    \/ WriteDone

SpecStale == InitStale /\ [][NextStale]_vars

\* C9: a range operation carrying the tokens read for lines s and e whose
\* two references resolve, while a line strictly between them is no longer
\* the line that was read, fails with the hash-mismatch error.
C9_StaleInteriorIsRejected ==
    (pc = "loop" /\ k = 0) =>
        \A edit \in ReadRangeEdits(seen) :
            LET s == edit.startHash.num
                e == edit.endHash.num
                r == ResolveRange(edit, State)
            IN  (/\ r.err \in {"none", "hash_mismatch"}
                 /\ r.start = s /\ r.end = e
                 /\ \E i \in (s + 1)..(e - 1) : lines[i] # seen[i])
                    => ApplyEditOp(edit, State).err = "hash_mismatch"

\* ------------------------------------------------------------------------
\* read_hashline after an edit call: read, replace one line, read again
\* ------------------------------------------------------------------------
\* selectedLines.map(...): `${lineNumber}:${hash}|${line}` for a read of the
\* whole file, each output line held as its token and its text
hashlineLines(allLines) ==
    [i \in 1..Len(allLines) |->
        [token |-> Token(i, generateLineHash(allLines[i], i)), line |-> allLines[i]]]

\* read_hashline.execute on the whole file, once the edit call has returned
ReadHashline ==
    /\ pc = "done"
    /\ IF validateFileForReading(fileSize, fileExt) = "ok"
       THEN /\ seen' = SplitLines(disk)
            /\ pc' = "shown"
            /\ error' = error
       ELSE /\ seen' = seen
            /\ pc' = "read_failed"
            /\ error' = validateFileForReading(fileSize, fileExt)
    /\ UNCHANGED <<disk, fileSize, fileExt, aborted, edits, k, callState,
                   writes, ghosts, resolverVars, readVars, peer, hostVars>>

\* Texts the caller may pass as newText
RoundTexts == FileTexts \cup NewTexts \cup {"", TwoLineText, CollidingText}

RoundEdits(f) ==
    {[type |-> "replace_line", lineHash |-> ReadToken(f, n), newText |-> t] :
        n \in 1..Len(f), t \in RoundTexts}

InitRound ==
    \E f \in Files : \E edit \in RoundEdits(f) :
        InitWith(f, MAX_FILE_SIZE, ".ts", <<edit>>)

NextRound ==
    \/ Cancel
    \/ EditEntry
    \/ StatDone
    \/ ReadDone
    \/ BatchAbort
    \/ BatchStep
    \/ BatchEnd
    \/ WriteDone
    \/ ReadHashline

SpecRound == InitRound /\ [][NextRound]_vars

\* What the second read has to show after line n was replaced by t
ExpectedAfterReplace(old, n, t) == hashlineLines([old EXCEPT ![n] = t])

\* C11: replace_line with the token read for line n and any text t does not
\* fail, and the read that follows shows line n with the text t and the
\* token hash fingerprint(t), every other line and token as before.
C11_ReadReplaceRead ==
    /\ pc # "failed"
    /\ pc = "shown" =>
          hashlineLines(seen) =
              ExpectedAfterReplace(SplitLines(disk0), edits[1].lineHash.num,
                                   edits[1].newText)

\* ------------------------------------------------------------------------
\* One operation under study, alone or after one operation built from the
\* tokens of the read
\* ------------------------------------------------------------------------
OpLists(f) ==
    {<<op>> : op \in EditDomain}
        \cup {<<pre, op>> : <<pre, op>> \in ReadEdits(f) \X EditDomain}

InitOp ==
    \E f \in Files : \E eds \in OpLists(f) :
        InitWith(f, MAX_FILE_SIZE, ".ts", eds)

SpecOp == InitOp /\ [][NextBatch]_vars

\* The operation under study and the state it is applied to
StudiedOp == edits[Len(edits)]
AtStudiedOp == pc = "loop" /\ ~signalAborted /\ k + 1 = Len(edits)

\* The operation under study went through, or threw
StudiedOpApplied == pc \in {"loop", "write", "done"} /\ k = Len(edits)
StudiedOpThrew == pc = "failed" /\ k + 1 = Len(edits)

\* The state the operation under study was applied to, once it has acted
StateBefore ==
    ApplyInOrder(SubSeq(edits, 1, Len(edits) - 1), StateAfterRead(disk0)).st

\* The token has the shape <digits>:<6 hex chars>
TokenShape(tok) == tok.num \in Nat /\ tok.hex \in SixHex

\* The reference tokens an operation carries
TokensOf(edit) ==
    IF edit.type \in {"replace_range", "delete_range"}
    THEN {edit.startHash, edit.endHash} ELSE {edit.lineHash}

\* C12: an operation carrying a token that is not of the shape
\* <digits>:<6 hex chars> throws the invalid-format error with the in-memory
\* state untouched, whatever its other token would resolve to, and the call
\* ends with that error, having written nothing.
C12_MalformedTokenRejected ==
    /\ (AtStudiedOp /\ \E tok \in TokensOf(StudiedOp) : ~TokenShape(tok))
          => ApplyEditOp(StudiedOp, State) = Threw("invalid_format", State)
    /\ (StudiedOpThrew /\ \E tok \in TokensOf(StudiedOp) : ~TokenShape(tok))
          => /\ error = "invalid_format"
             /\ State = StateBefore
             /\ writes = 0
             /\ disk = disk0

\* A range operation with a malformed end token ended the call after an
\* earlier operation changed the buffer; its start token resolves to nothing
C12_Witness ==
    /\ StudiedOpThrew
    /\ k = 1
    /\ JoinLines(lines) # disk
    /\ StudiedOp.type \in {"replace_range", "delete_range"}
    /\ TokenShape(StudiedOp.startHash)
    /\ ~TokenShape(StudiedOp.endHash)
    /\ ~ResolveNow(StudiedOp.startHash.num, StudiedOp.startHash.hex).ok

\* What the resolver answers for each reference token of the operation, in
\* the order the operation resolves them
Resolutions(edit, st) ==
    IF edit.type \in {"replace_range", "delete_range"}
    THEN <<resolveLineHash(parseLineHash(edit.startHash), st.lines, st.hashIndex,
                           st.modifiedLines),
           resolveLineHash(parseLineHash(edit.endHash), st.lines, st.hashIndex,
                           st.modifiedLines)>>
    ELSE <<resolveLineHash(parseLineHash(edit.lineHash), st.lines, st.hashIndex,
                           st.modifiedLines)>>

\* Every reference of the operation is well-formed and resolves
AllResolve(edit, st) ==
    /\ TokensParse(edit)
    /\ \A i \in 1..Len(Resolutions(edit, st)) : Resolutions(edit, st)[i].ok

\* The resolved positions lie in [1, line count], the end not before the start
InBounds(rs, ls) ==
    /\ \A i \in 1..Len(rs) : rs[i].lineNumber \in 1..Len(ls)
    /\ Len(rs) = 2 => rs[2].lineNumber >= rs[1].lineNumber

\* C13: an operation whose references resolve goes through only when the
\* resolved positions lie in [1, current line count] and, for a range, the
\* end is not before the start; otherwise it throws the out-of-range error
\* and the in-memory state stays as it was.
C13_BoundsSafety ==
    /\ (AtStudiedOp /\ AllResolve(StudiedOp, State)) =>
          LET rs == Resolutions(StudiedOp, State)
              r == ApplyEditOp(StudiedOp, State)
          IN  /\ r.err = "none" => InBounds(rs, lines)
              /\ ~InBounds(rs, lines) => r = Threw("out_of_range", State)
    /\ StudiedOpApplied =>
          InBounds(Resolutions(StudiedOp, StateBefore), StateBefore.lines)
    /\ (StudiedOpThrew /\ AllResolve(StudiedOp, State)
            /\ ~InBounds(Resolutions(StudiedOp, State), lines)) =>
          error = "out_of_range" /\ State = StateBefore

\* An operation that threw because its reference resolved, through an index
\* entry left past the end of the buffer, to a position the buffer lacks
C13_Witness ==
    /\ StudiedOpThrew
    /\ error = "out_of_range"
    /\ k = 1
    /\ AllResolve(StudiedOp, State)
    /\ \E i \in 1..Len(Resolutions(StudiedOp, State)) :
          Resolutions(StudiedOp, State)[i].lineNumber > Len(lines)

\* The position the single reference of the operation under study resolved to
StudiedLine == Resolutions(StudiedOp, StateBefore)[1].lineNumber

\* The index entries of a and b agree everywhere except at the positions P
SameIndexExcept(a, b, P) ==
    \A i \in ((DOMAIN a) \cup (DOMAIN b)) \ P : IndexGet(a, i) = IndexGet(b, i)

\* C14: a replace_line that went through set the text of the resolved line
\* to newText and left the line count and every other line as they were,
\* added the resolved line number to the modified set, and changed no index
\* entry but that line's, which is now fingerprint(newText).
C14_ReplaceLineEffect ==
    (StudiedOpApplied /\ StudiedOp.type = "replace_line") =>
        /\ Len(lines) = Len(StateBefore.lines)
        /\ StudiedLine \in 1..Len(lines)
        /\ \A i \in 1..Len(lines) :
              lines[i] = IF i = StudiedLine THEN StudiedOp.newText
                         ELSE StateBefore.lines[i]
        /\ modifiedLines = StateBefore.modifiedLines \cup {StudiedLine}
        /\ IndexGet(hashIndex, StudiedLine) =
              generateLineHash(StudiedOp.newText, StudiedLine)
        /\ SameIndexExcept(hashIndex, StateBefore.hashIndex, {StudiedLine})

\* A replace_line applied to a buffer of several lines that an earlier
\* replace_line had already marked, at another position
C14_Witness ==
    /\ StudiedOpApplied
    /\ StudiedOp.type = "replace_line"
    /\ Len(lines) >= 2
    /\ StateBefore.modifiedLines # {}
    /\ StudiedLine \notin StateBefore.modifiedLines
    /\ StudiedLine # StudiedOp.lineHash.num

\* The positions the two references of the range operation under study
\* resolved to
StudiedStart == Resolutions(StudiedOp, StateBefore)[1].lineNumber
StudiedEnd == Resolutions(StudiedOp, StateBefore)[2].lineNumber

\* old[1..s-1] ++ N ++ old[e+1..], position by position
SplicedBuffer(old, s, e, N) ==
    [i \in 1..(Len(old) - (e - s + 1) + Len(N)) |->
        IF i < s THEN old[i]
        ELSE IF i < s + Len(N) THEN N[i - s + 1]
        ELSE old[i - Len(N) + (e - s + 1)]]

\* The index a rebuild from the buffer alone gives
IndexOf(ls) == [i \in 1..Len(ls) |-> generateLineHash(ls[i], i)]

\* C15: a replace_range that went through with the resolved range [s, e]
\* and the new lines N left the buffer old[1..s-1] ++ N ++ old[e+1..], an
\* empty modified set and the index of that buffer.
C15_ReplaceRangeEffect ==
    (StudiedOpApplied /\ StudiedOp.type = "replace_range") =>
        /\ lines = SplicedBuffer(StateBefore.lines, StudiedStart, StudiedEnd,
                                 StudiedOp.newLines)
        /\ modifiedLines = {}
        /\ hashIndex = IndexOf(lines)

\* C16: an insert_after that went through with the resolved anchor L and
\* the new lines N left the buffer old[1..L] ++ N ++ old[L+1..]; an
\* insert_after whose reference resolves to the last line of the buffer
\* does not throw and appends N at the end.
C16_InsertAfterEffect ==
    /\ (StudiedOpApplied /\ StudiedOp.type = "insert_after") =>
          /\ StudiedLine \in 1..Len(StateBefore.lines)
          /\ Len(lines) = Len(StateBefore.lines) + Len(StudiedOp.newLines)
          /\ \A i \in 1..Len(StateBefore.lines) :
                StateBefore.lines[i] =
                    lines[IF i <= StudiedLine THEN i
                          ELSE i + Len(StudiedOp.newLines)]
          /\ \A j \in 1..Len(StudiedOp.newLines) :
                lines[StudiedLine + j] = StudiedOp.newLines[j]
    /\ (/\ AtStudiedOp
        /\ StudiedOp.type = "insert_after"
        /\ AllResolve(StudiedOp, State)
        /\ Resolutions(StudiedOp, State)[1].lineNumber = Len(lines)) =>
          /\ ApplyEditOp(StudiedOp, State).err = "none"
          /\ ApplyEditOp(StudiedOp, State).st.lines = lines \o StudiedOp.newLines

\* Lines appended after the last line of a buffer that an earlier operation
\* had changed
C16_Witness ==
    /\ StudiedOpApplied
    /\ StudiedOp.type = "insert_after"
    /\ Len(edits) = 2
    /\ StudiedOp.newLines # <<>>
    /\ StudiedLine = Len(StateBefore.lines)
    /\ StateBefore.lines # SplitLines(disk0)

\* C17: a delete_line that went through removed exactly the resolved line:
\* one line less, the lines before it in place and the lines after it moved
\* up by one in the same order, an empty modified set, and an index rebuilt
\* for the new positions (the index of the new buffer).
C17_DeleteLineEffect ==
    (StudiedOpApplied /\ StudiedOp.type = "delete_line") =>
        /\ StudiedLine \in 1..Len(StateBefore.lines)
        /\ Len(lines) = Len(StateBefore.lines) - 1
        /\ \A i \in 1..Len(lines) :
              lines[i] = StateBefore.lines[IF i < StudiedLine THEN i ELSE i + 1]
        /\ modifiedLines = {}
        /\ hashIndex = IndexOf(lines)

\* C18: a delete_range that went through with the resolved range [s, e]
\* removed exactly the lines s..e, kept the others in order, emptied the
\* modified set and left the index of the new buffer.
C18_DeleteRangeEffect ==
    (StudiedOpApplied /\ StudiedOp.type = "delete_range") =>
        /\ StudiedStart \in 1..Len(StateBefore.lines)
        /\ StudiedEnd \in StudiedStart..Len(StateBefore.lines)
        /\ Len(lines) = Len(StateBefore.lines) - (StudiedEnd - StudiedStart + 1)
        /\ lines = SplicedBuffer(StateBefore.lines, StudiedStart, StudiedEnd, <<>>)
        /\ modifiedLines = {}
        /\ hashIndex = IndexOf(lines)

\* ------------------------------------------------------------------------
\* Further properties of the call on an edit list drawn up front
\* ------------------------------------------------------------------------
\* C19: up to the end of the loop the call has written nothing and the file
\* is what it was when the call was made; a call that returned has written
\* exactly once, after the last operation of the list, and the file holds
\* the final buffer joined by line breaks.
C19_SingleWriteOnSuccess ==
    /\ pc \in {"idle", "stat", "read", "loop", "write"} =>
          (writes = 0 /\ disk = disk0)
    /\ pc = "done" =>
          /\ writes = 1
          /\ k = Len(edits)
          /\ disk = JoinLines(lines)

\* A returned call of two operations that changed the file
C19_Witness ==
    /\ pc = "done"
    /\ Len(edits) >= 2
    /\ writes = 1
    /\ disk # disk0
    /\ Len(lines) >= 2

\* ------------------------------------------------------------------------
\* Affected-region output of a returned edit call
\* ------------------------------------------------------------------------
\* responseMode === "minimal" ? 0 : responseMode === "normal" ? 1 : 3
ResponseModes == {"minimal", "normal", "debug"}
contextLines(responseMode) ==
    IF responseMode = "minimal" THEN 0
    ELSE IF responseMode = "normal" THEN 1 ELSE 3

regionStart(st, mode) == Max(0, st.minAffectedLine - 1 - contextLines(mode))
regionEnd(st, mode) == Min(Len(st.lines), st.maxAffectedLine + contextLines(mode))

\* The lines of the region, each with its marker, its line number, its text
\* and, for a changed line only, its fingerprint
regionLines(st, mode) ==
    IF st.minAffectedLine = Infinity \/ st.maxAffectedLine = NegInfinity
    THEN <<>>
    ELSE [j \in 1..Max(0, regionEnd(st, mode) - regionStart(st, mode)) |->
            LET i == regionStart(st, mode) + j - 1
                lineNumber == i + 1
                isChanged == i >= st.minAffectedLine - 1 /\ i < st.maxAffectedLine
            IN  [marker |-> IF isChanged THEN "*" ELSE " ",
                 lineNumber |-> lineNumber,
                 hash |-> IF isChanged
                          THEN generateLineHash(st.lines[i + 1], lineNumber)
                          ELSE Undefined,
                 line |-> st.lines[i + 1]]]

\* The reference tokens the region shows
RegionTokens(st, mode) ==
    {Token(regionLines(st, mode)[j].lineNumber, regionLines(st, mode)[j].hash) :
        j \in {j \in 1..Len(regionLines(st, mode)) :
                 regionLines(st, mode)[j].marker = "*"}}

\* What the resolver of a later call on the file as it is now answers
ResolveInLaterCall(tok) ==
    resolveLineHash(parseLineHash(tok), SplitLines(disk),
                    RebuildIndex(EmptyIndex, SplitLines(disk)), {})

\* C20: every token n:h in the affected region of a returned call names a
\* line n of the final buffer whose text has the fingerprint h, and a later
\* call on the unchanged file resolves it to line n.
C20_RegionTokensAreSeeds ==
    pc \in {"done", "shown"} =>
        \A mode \in ResponseModes : \A tok \in RegionTokens(State, mode) :
            /\ tok.num \in 1..Len(lines)
            /\ tok.hex = generateLineHash(lines[tok.num], tok.num)
            /\ parseLineHash(tok) # Null
            /\ ResolveInLaterCall(tok) = Resolved(tok.num)

\* ------------------------------------------------------------------------
\* Fingerprints in the running call
\* ------------------------------------------------------------------------
\* The positions of the buffer, and of the file as read_hashline showed it
BufferPairs == (1..Len(lines)) \X (1..Len(lines))
SeenPairs == (1..Len(seen)) \X (1..Len(seen))

\* C21: the fingerprint depends on the text alone: two lines of the buffer
\* with the same text have the same index entry and the same recomputed
\* fingerprint whatever their positions, a line that kept its text has the
\* fingerprint it was read with, and two lines shown by the read with the
\* same text carry the same hash in their tokens.
C21_FingerprintContentOnly ==
    /\ pc = "loop" =>
          /\ \A q \in BufferPairs :
                lines[q[1]] = lines[q[2]] =>
                    /\ IndexGet(hashIndex, q[1]) = IndexGet(hashIndex, q[2])
                    /\ generateLineHash(lines[q[1]], q[1])
                           = generateLineHash(lines[q[2]], q[2])
          /\ \A i \in 1..Len(lines) : \A j \in 1..Len(seen) :
                lines[i] = seen[j] =>
                    IndexGet(hashIndex, i) = ReadToken(seen, j).hex
    /\ \A q \in SeenPairs :
          seen[q[1]] = seen[q[2]] =>
              ReadToken(seen, q[1]).hex = ReadToken(seen, q[2]).hex

\* Two lines of equal text at different positions of a buffer whose lines
\* were shifted by an earlier operation
C21_Witness ==
    /\ pc = "loop"
    /\ k >= 1
    /\ Len(lines) # Len(seen)
    /\ \E q \in BufferPairs :
          /\ q[1] # q[2]
          /\ lines[q[1]] = lines[q[2]]
          /\ IndexGet(hashIndex, q[1]) = IndexGet(hashIndex, q[2])

\* ------------------------------------------------------------------------
\* read_hashline.execute with its window parameters
\* ------------------------------------------------------------------------
\* An optional number parameter the caller left out
Unset == 0 - 999
DefaultRadius == 10

\* A file of alternating lines longer than the default radius reaches
LongFile == [i \in 1..MaxScanLines |-> IF i % 2 = 1 THEN "a" ELSE "b"]
ReadFiles == Files \cup {LongFile}

\* Parameter values around the ends of a file of n lines; Type.Number sets
\* no minimum, so values below the first line are among them
ReadParams(n) ==
    [offset : {Unset} \cup ((0 - 1)..(n + 1)),
     limit : {Unset} \cup ((0 - 1)..2),
     aroundLine : {Unset} \cup ((0 - 1)..(n + 1)),
     radius : {Unset, 0, 1}]

\* const { path, offset, limit, aroundLine, radius = 10 } = params
radiusOf(p) == IF p.radius = Unset THEN DefaultRadius ELSE p.radius

\* startLine, 0-indexed
startLine(p, n) ==
    IF p.aroundLine # Unset
    THEN Max(0, (p.aroundLine - 1) - radiusOf(p))
    ELSE IF p.offset # Unset /\ p.offset # 0 THEN Max(0, p.offset - 1) ELSE 0

\* endLine, 0-indexed and exclusive
endLine(p, n) ==
    IF p.aroundLine # Unset
    THEN Min(n, (p.aroundLine - 1) + radiusOf(p) + 1)
    ELSE IF p.limit # Unset THEN Min(startLine(p, n) + p.limit, n) ELSE n

\* throw new Error(`Offset ... is beyond end of file`)
OffsetBeyondEnd(p, n) == p.aroundLine = Unset /\ startLine(p, n) >= n

\* The output lines numbered from 1 within the window
selectedHashlines_Relative(allLines, p) ==
    LET start == startLine(p, Len(allLines))
        selectedLines == Slice(allLines, start, endLine(p, Len(allLines)))
    IN  [idx \in 1..Len(selectedLines) |->
            [token |-> Token(idx, generateLineHash(selectedLines[idx], idx)),
             line |-> selectedLines[idx]]]

\* selectedLines.map((line, idx) => `${startLine + idx + 1}:${hash}|${line}`),
\* each output line held as its token and its text
selectedHashlines(allLines, p) ==
    LET start == startLine(p, Len(allLines))
        selectedLines == Slice(allLines, start, endLine(p, Len(allLines)))
    IN  [idx \in 1..Len(selectedLines) |->
            [token |-> Token(start + idx,
                             generateLineHash(selectedLines[idx], start + idx)),
             line |-> selectedLines[idx]]]

\* Entry of the call: the parameters arrive, the signal is tested
ReadEntry ==
    /\ pc = "idle"
    /\ \E p \in ReadParams(Len(SplitLines(disk))) : readParams' = p
    /\ IF signalAborted
       THEN pc' = "aborted" /\ error' = "aborted"
       ELSE pc' = "r_stat" /\ error' = error
    /\ UNCHANGED <<disk, fileVars, aborted, edits, k, callState, writes,
                   ghosts, resolverVars, readOut, peer, hostVars>>

\* The validation letting every file through
ReadStat_NoGate ==
    /\ pc = "r_stat"
    /\ pc' = "r_read"
    /\ UNCHANGED <<disk, fileVars, aborted, edits, k, callState, error, writes,
                   ghosts, resolverVars, readVars, peer, hostVars>>

\* await validateFileForReading(absolutePath)
ReadStat ==
    /\ pc = "r_stat"
    /\ LET v == validateFileForReading(fileSize, fileExt)
       IN  IF v = "ok"
           THEN pc' = "r_read" /\ error' = error
           ELSE pc' = "failed" /\ error' = v
    /\ UNCHANGED <<disk, fileVars, aborted, edits, k, callState, writes,
                   ghosts, resolverVars, readVars, peer, hostVars>>

\* await readFile; split; select the window; prefix the lines.  The output
\* stays below the line and byte limits of truncateHead.
ReadFile ==
    /\ pc = "r_read"
    /\ IF OffsetBeyondEnd(readParams, Len(SplitLines(disk)))
       THEN /\ pc' = "failed"
            /\ error' = "offset_beyond_end"
            /\ readOut' = readOut
       ELSE /\ pc' = "shown"
            /\ error' = error
            /\ readOut' = selectedHashlines(SplitLines(disk), readParams)
    /\ UNCHANGED <<disk, fileVars, aborted, edits, k, callState, writes,
                   ghosts, resolverVars, readParams, peer, hostVars>>

InitRead ==
    \E f \in ReadFiles :
        \E size \in {MAX_FILE_SIZE, MAX_FILE_SIZE + 1} :
            \E ext \in {".ts", ".PNG", ".png"} : InitWith(f, size, ext, <<>>)

\* Operations built from the tokens shown for the first lines of the file
FirstLines(ls) == Slice(ls, 0, MaxFileLines)

NextRead ==
    \/ ReadEntry
    \/ ReadStat
    \/ ReadFile
    \/ Cancel
    \/ EditEntry
    \/ StatDone
    \/ ReadDone
    \/ LoopAbort
    \/ \E edit \in ReadEdits(FirstLines(seen)) : EditStep(edit)
    \/ LoopEnd
    \/ WriteDone

SpecRead == InitRead /\ [][NextRead]_vars


\* C22: for a file above the size ceiling or with a binary extension,
\* neither tool gets past its validation: the edit call has read no line,
\* built no index entry, applied no operation and written nothing, the read
\* call has produced no output line, and the call that failed did so with
\* the validation's error.
C22_PreconditionGate ==
    validateFileForReading(fileSize, fileExt) # "ok" =>
        /\ pc \in {"idle", "stat", "r_stat", "failed", "aborted"}
        /\ lines = <<>>
        /\ hashIndex = EmptyIndex
        /\ readOut = Null
        /\ k = 0
        /\ writes = 0
        /\ disk = disk0
        /\ pc = "failed" => error = validateFileForReading(fileSize, fileExt)

\* A read call rejected for an upper-case binary extension on a file of
\* admissible size
C22_Witness ==
    /\ pc = "failed"
    /\ readParams # Null
    /\ fileExt = ".PNG"
    /\ fileSize <= MAX_FILE_SIZE
    /\ error = "binary"
    /\ readOut = Null


ShownNumbers == {readOut[j].token.num : j \in 1..Len(readOut)}

\* C24: with aroundLine given, a read shows exactly the lines of
\* [aroundLine - radius, aroundLine + radius] that the file has, radius
\* being 10 when absent, whatever offset and limit say; without it the
\* shown lines start at offset and are at most limit many.
C24_WindowSelection ==
    pc = "shown" =>
        LET n == Len(SplitLines(disk))
            p == readParams
        IN  IF p.aroundLine # Unset
            THEN ShownNumbers =
                     {i \in 1..n : /\ i >= p.aroundLine - radiusOf(p)
                                   /\ i <= p.aroundLine + radiusOf(p)}
            ELSE /\ readOut # <<>> =>
                        readOut[1].token.num =
                            (IF p.offset = Unset THEN 1 ELSE Max(1, p.offset))
                 /\ p.limit # Unset => Len(readOut) <= p.limit


\* The reference written with lower-case hex digits
LowerCased(ref) == [lineNumber |-> ref.lineNumber, hash |-> ToLowerHex(ref.hash)]

\* C25: a token whose hex digits are written in upper case is accepted as
\* well-formed and resolves as the same token written in lower case does.
C25_HexCaseInsensitive ==
    (pc = "resolved" /\ resolveRef.hash # ToLowerHex(resolveRef.hash)) =>
        /\ parseLineHash(Token(resolveRef.lineNumber, resolveRef.hash))
               = resolveRef
        /\ resolveOut =
               resolveLineHash(LowerCased(resolveRef), lines, hashIndex,
                               modifiedLines)


\* ------------------------------------------------------------------------
\* The two searches of the resolver
\* ------------------------------------------------------------------------
\* Lines of the whole buffer whose text has the reference's hash
BufferMatches(ref, ls) ==
    {i \in 1..Len(ls) : generateLineHash(ls[i], i) = ref.hash}

\* C27: when the index entry at the reference's own line number differs from
\* its hash, that line number is not in the modified set and exactly one
\* line of the window of 10 lines either side carries the fingerprint, the
\* resolver returns that line without error, whatever lies outside the
\* window.
C27_LocalityFirst ==
    (/\ pc = "resolved"
     /\ ~ExactMatch(resolveRef, hashIndex)
     /\ resolveRef.lineNumber \notin modifiedLines
     /\ Cardinality(WindowMatches(resolveRef, lines)) = 1)
        => /\ resolveOut.ok
           /\ resolveOut.error = "none"
           /\ resolveOut.lineNumber \in WindowMatches(resolveRef, lines)

\* One line of the window and another line outside it carry the fingerprint
C27_Witness ==
    /\ pc = "resolved"
    /\ ~ExactMatch(resolveRef, hashIndex)
    /\ resolveRef.lineNumber \notin modifiedLines
    /\ Cardinality(WindowMatches(resolveRef, lines)) = 1
    /\ Cardinality(BufferMatches(resolveRef, lines)) >= 2
    /\ resolveOut.ok

\* The positions the failed search covered
SearchedScope ==
    IF resolveOut.error = "ambiguous_nearby"
    THEN nearbyStart(resolveRef)..nearbyEnd(resolveRef, lines)
    ELSE 1..Len(lines)

\* C28: the candidates of an ambiguity error are exactly the positions of
\* the searched scope (the window for the nearby search, the whole buffer
\* for the global search) whose index entry equals the reference's hash, in
\* ascending order, and they are at least two.
C28_AmbiguityCandidates ==
    (pc = "resolved"
        /\ resolveOut.error \in {"ambiguous_nearby", "ambiguous_global"})
        => /\ ~resolveOut.ok
           /\ Len(resolveOut.candidates) >= 2
           /\ \A j \in 1..(Len(resolveOut.candidates) - 1) :
                  resolveOut.candidates[j] < resolveOut.candidates[j + 1]
           /\ SeqRange(resolveOut.candidates) =
                  {i \in SearchedScope :
                      IndexGet(hashIndex, i) = resolveRef.hash}

\* The global search failed as ambiguous on lines outside the window
C28_Witness ==
    /\ pc = "resolved"
    /\ resolveOut.error = "ambiguous_global"
    /\ Len(resolveOut.candidates) >= 2
    /\ WindowMatches(resolveRef, lines) = {}


\* ------------------------------------------------------------------------
\* Two edit_hashline calls on the same file.  The second call is the same
\* handler, here with a list of one operation; between two awaits a call
\* runs without interruption, so its split, index and edit loop are one step
\* with the completion of readFile.
\* ------------------------------------------------------------------------
\* Operations on one line, with the tokens read_hashline showed
SingleEdits(ls) ==
    {e \in ReadEdits(ls) :
        e.type \in {"replace_line", "insert_after", "delete_line"}}

RaceLists(ls) == SeqsUpTo(SingleEdits(ls), MaxRaceEdits) \ {<<>>}

InitRace ==
    \E f \in Files :
        /\ \E eds \in RaceLists(f) : InitCall(f, MAX_FILE_SIZE, ".ts", eds)
        /\ HostInit
        /\ \E e \in SingleEdits(f) :
              peer = [pc |-> "idle", edits |-> <<e>>, lines |-> <<>>,
                      error |-> "none", writesAtRead |-> 0,
                      pcAtWrite |-> "idle", writesAtWrite |-> 0]

\* Entry of the second call
PeerEntry ==
    /\ peer.pc = "idle"
    /\ peer' = [peer EXCEPT !.pc = "stat"]
    /\ UNCHANGED <<disk, fileVars, aborted, pc, edits, k, callState, error,
                   writes, ghosts, resolverVars, readVars, hostVars>>

\* await validateFileForReading(absolutePath) in the second call
PeerStat ==
    /\ peer.pc = "stat"
    /\ LET v == validateFileForReading(fileSize, fileExt)
       IN  peer' = IF v = "ok" THEN [peer EXCEPT !.pc = "read"]
                   ELSE [peer EXCEPT !.pc = "failed", !.error = v]
    /\ UNCHANGED <<disk, fileVars, aborted, pc, edits, k, callState, error,
                   writes, ghosts, resolverVars, readVars, hostVars>>

\* await readFile completes in the second call, which then splits, builds
\* its index and runs its whole loop; writesAtRead records whether the first
\* call had written by then
PeerRead ==
    /\ peer.pc = "read"
    /\ \E r \in {ApplyInOrder(peer.edits, StateAfterRead(disk))} :
          /\ Len(r.st.lines) <= MaxBufLines
          /\ peer' = IF r.err = "none"
                     THEN [peer EXCEPT !.pc = "write", !.lines = r.st.lines,
                                       !.writesAtRead = writes]
                     ELSE [peer EXCEPT !.pc = "failed", !.error = r.err,
                                       !.writesAtRead = writes]
    /\ UNCHANGED <<disk, fileVars, aborted, pc, edits, k, callState, error,
                   writes, ghosts, resolverVars, readVars, hostVars>>

\* writeFile of the second call completes; pcAtWrite and writesAtWrite record
\* where the first call was
PeerWrite ==
    /\ peer.pc = "write"
    /\ disk' = JoinLines(peer.lines)
    /\ peer' = [peer EXCEPT !.pc = "done", !.pcAtWrite = pc,
                            !.writesAtWrite = writes]
    /\ UNCHANGED <<fileVars, aborted, pc, edits, k, callState, error,
                   writes, ghosts, resolverVars, readVars, hostVars>>

NextRace ==
    \/ EditEntry
    \/ StatDone
    \/ ReadDone
    \/ BatchStep
    \/ BatchEnd
    \/ WriteDone
    \/ PeerEntry
    \/ PeerStat
    \/ PeerRead
    \/ PeerWrite

SpecRace == InitRace /\ [][NextRace]_vars

\* Both calls read the file before either wrote it
Overlapped ==
    /\ peer.writesAtRead = 0
    /\ peer.pcAtWrite \in {"loop", "write", "done"}

\* The edit list of the call whose write completed last
LastWriterEdits == IF peer.writesAtWrite = 1 THEN peer.edits ELSE edits

\* C26: two overlapping calls that both reach their end do so without any
\* error, each having written once, and the file is then the edit list of
\* the call that wrote last applied to the content both read.
C26_LastWriteWins ==
    (pc = "done" /\ peer.pc = "done" /\ Overlapped) =>
        /\ error = "none"
        /\ peer.error = "none"
        /\ writes = 1
        /\ disk = JoinLines(ApplyInOrder(LastWriterEdits,
                                StateAfterRead(JoinLines(seen))).st.lines)

\* Both calls completed, the first wrote last and what the second call had
\* written is gone
C26_Witness ==
    /\ pc = "done"
    /\ peer.pc = "done"
    /\ Overlapped
    /\ peer.writesAtWrite = 0
    /\ error = "none"
    /\ peer.error = "none"
    /\ peer.lines # seen
    /\ JoinLines(peer.lines) # disk
    /\ ApplyInOrder(peer.edits, StateAfterRead(disk)).st.lines # SplitLines(disk)


\* ------------------------------------------------------------------------
\* The modified set through a batch
\* ------------------------------------------------------------------------
\* The loop has been entered: some number of operations has been applied
InBatch ==
    /\ pc \in {"loop", "write", "done", "failed"}
    /\ error \notin {"too_large", "binary"}

\* The operation applied last was one of the four splicing ones
AfterSplice == k >= 1 /\ edits[k].type # "replace_line"

\* C29 as stated: the modified set is exactly the positions replace_line
\* wrote since the line count last changed, lies within the buffer, and is
\* empty right after replace_range, insert_after, delete_line, delete_range.
C29_ModifiedSinceCountChange ==
    InBatch =>
        /\ modifiedLines = sinceCount
        /\ modifiedLines \subseteq 1..Len(lines)
        /\ AfterSplice => modifiedLines = {}

\* C29 amended: the modified set is exactly the positions replace_line wrote
\* since the last replace_range, insert_after, delete_line or delete_range
\* (whether or not that operation changed the line count), lies within the
\* buffer, and is empty right after each of those four operations.
C29_ModifiedSinceSplice ==
    InBatch =>
        /\ modifiedLines = sinceSplice
        /\ modifiedLines \subseteq 1..Len(lines)
        /\ AfterSplice => modifiedLines = {}

\* A replace_range that kept the line count emptied the set replace_line
\* had filled
C29_Witness ==
    /\ InBatch
    /\ k = 2
    /\ edits[1].type = "replace_line"
    /\ edits[2].type = "replace_range"
    /\ Len(lines) = Len(SplitLines(disk0))
    /\ sinceCount # {}
    /\ modifiedLines = {}


\* ------------------------------------------------------------------------
\* The changed span of a written batch.  The files of the model hold the
\* texts of FileTexts and every operation of ReadEdits writes FreshText, so
\* the lines of the final buffer that an operation wrote or inserted are
\* the lines with the text FreshText.
\* ------------------------------------------------------------------------
WrittenLines == {i \in 1..Len(lines) : lines[i] = FreshText}

\* C30: after a written batch every line of the final buffer that an
\* operation of the batch wrote or inserted lies within
\* [minAffectedLine, maxAffectedLine] and the region shows it with the
\* changed marker and its token, in every response mode.
C30_BoundsCoverFootprint ==
    pc = "done" =>
        \A i \in WrittenLines :
            /\ minAffectedLine <= i
            /\ i <= maxAffectedLine
            /\ \A mode \in ResponseModes :
                   Token(i, generateLineHash(lines[i], i))
                       \in RegionTokens(State, mode)


\* ------------------------------------------------------------------------
\* What the resolver returns during a batch
\* ------------------------------------------------------------------------
\* The parsed reference tokens of the operation, in the order it resolves them
RefsOf(edit) ==
    IF edit.type \in {"replace_range", "delete_range"}
    THEN <<parseLineHash(edit.startHash), parseLineHash(edit.endHash)>>
    ELSE <<parseLineHash(edit.lineHash)>>

\* C31: a line number the resolver returns for a reference of an operation
\* of the batch, whatever the earlier operations did, lies in [1, current
\* line count], and the line there has the reference's fingerprint or is in
\* the modified set.
C31_ResolverPostcondition ==
    (AtStudiedOp /\ TokensParse(StudiedOp)) =>
        \A i \in 1..Len(RefsOf(StudiedOp)) :
            LET r == Resolutions(StudiedOp, State)[i]
                ref == RefsOf(StudiedOp)[i]
            IN  r.ok =>
                  /\ r.lineNumber \in 1..Len(lines)
                  /\ \/ generateLineHash(lines[r.lineNumber], r.lineNumber)
                            = ref.hash
                     \/ r.lineNumber \in modifiedLines


\* ------------------------------------------------------------------------
\* The verification loop of the range operations
\* ------------------------------------------------------------------------
RangeTypes == {"replace_range", "delete_range"}

\* C32: in every state of a batch each line of the buffer outside the
\* modified set has a recomputed fingerprint equal to its index entry, so a
\* range that resolved within the buffer has no mismatched line and no call
\* ends with the hash-mismatch error.
C32_HashMismatchUnreachable ==
    /\ error # "hash_mismatch"
    /\ pc = "loop" =>
          \A i \in (1..Len(lines)) \ modifiedLines :
              generateLineHash(lines[i], i) = IndexGet(hashIndex, i)
    /\ (/\ AtStudiedOp
        /\ StudiedOp.type \in RangeTypes
        /\ AllResolve(StudiedOp, State)
        /\ InBounds(Resolutions(StudiedOp, State), lines)) =>
          /\ MismatchedLines(State, Resolutions(StudiedOp, State)[1].lineNumber,
                             Resolutions(StudiedOp, State)[2].lineNumber) = {}
          /\ ApplyEditOp(StudiedOp, State).err = "none"

\* A range of two or more lines went through the verification after an
\* earlier operation had changed the buffer
C32_Witness ==
    /\ StudiedOpApplied
    /\ k = 2
    /\ StudiedOp.type \in RangeTypes
    /\ StudiedEnd > StudiedStart
    /\ StateBefore.lines # SplitLines(disk0)
    /\ error = "none"


\* ------------------------------------------------------------------------
\* The call with an empty edit list, on files with empty lines: the empty
\* file, files ending in a line break, files with blank lines
\* ------------------------------------------------------------------------
BlankFiles == SeqsUpTo(FileTexts \cup {""}, MaxFileLines) \ {<<>>}

InitEmpty == \E f \in BlankFiles : InitWith(f, MAX_FILE_SIZE, ".ts", <<>>)

NextEmpty ==
    \/ Cancel
    \/ EditEntry
    \/ StatDone
    \/ ReadDone
    \/ BatchEnd
    \/ WriteDone

SpecEmpty == InitEmpty /\ [][NextEmpty]_vars

\* C33: a call with an empty edit list that reaches its end has written,
\* once, the content it read: joining the split lines gives the content
\* back, with or without a line break at the end; no operation was applied
\* and the call has no affected region.
C33_EmptyBatchIdentity ==
    /\ pc \in {"loop", "write", "done"} =>
          /\ lines = SplitLines(disk0)
          /\ JoinLines(lines) = disk0
    /\ pc = "done" =>
          /\ disk = disk0
          /\ writes = 1
          /\ k = 0
          /\ Len(edits) = 0
          /\ error = "none"
          /\ minAffectedLine = Infinity
          /\ maxAffectedLine = NegInfinity
          /\ \A mode \in ResponseModes : regionLines(State, mode) = <<>>

\* A written file that ends in a line break after a blank line
C33_Witness ==
    /\ pc = "done"
    /\ aborted = "no"
    /\ Len(lines) = 3
    /\ lines[2] = ""
    /\ lines[3] = ""
    /\ disk = disk0
    /\ disk[Len(disk)] = NL


\* ------------------------------------------------------------------------
\* Hashline mode: the flag, its config file and its status entry.
\* loadConfig is started when the extension is set up; the /hashline
\* command and the session_start handler run whenever the host calls them.
\* A readFile gets the content the file has at some moment between its call
\* and its completion, a writeFile changes the file at some moment between
\* its call and its completion.
\* ------------------------------------------------------------------------
ConfigFiles == {"absent", "on", "off"}

\* hashlineEnabled ? "[H:ON]" : "[H:OFF]"
StatusOf(enabled) == IF enabled THEN "[H:ON]" ELSE "[H:OFF]"

\* JSON.stringify({ enabled: hashlineEnabled })
ConfigOf(enabled) == IF enabled THEN "on" ELSE "off"

\* JSON.parse(content).enabled ?? false; a missing file makes readFile
\* throw and the catch sets false
EnabledIn(content) == content = "on"

\* readFile of loadConfig gets the content
LoadSample ==
    /\ loadPc = "reading"
    /\ loadContent' = configFile
    /\ loadPc' = "sampled"
    /\ UNCHANGED <<toolVars, updVars, hashlineEnabled, configFile, hashlineStatus,
                   togglePc, toggleWrite, toggles, sessionPc>>

\* await readFile returns (or throws) in loadConfig:
\* hashlineEnabled = config.enabled ?? false, or false in the catch
LoadResume ==
    /\ loadPc = "sampled"
    /\ hashlineEnabled' = EnabledIn(loadContent)
    /\ loadPc' = "returned"
    /\ UNCHANGED <<toolVars, updVars, configFile, hashlineStatus, loadContent,
                   togglePc, toggleWrite, toggles, sessionPc>>

\* .then(enabled => { hashlineEnabled = enabled; return enabled; })
LoadThen ==
    /\ loadPc = "returned"
    /\ hashlineEnabled' = EnabledIn(loadContent)
    /\ loadPc' = "settled"
    /\ UNCHANGED <<toolVars, updVars, configFile, hashlineStatus, loadContent,
                   togglePc, toggleWrite, toggles, sessionPc>>

\* session_start: await configLoadPromise; setStatus
SessionStart ==
    /\ sessionPc = "idle"
    /\ loadPc = "settled"
    /\ hashlineStatus' = StatusOf(hashlineEnabled)
    /\ sessionPc' = "done"
    /\ UNCHANGED <<toolVars, updVars, hashlineEnabled, configFile, loadPc, loadContent,
                   togglePc, toggleWrite, toggles>>

\* /hashline: hashlineEnabled = !hashlineEnabled; writeFile is called
ToggleEntry ==
    /\ togglePc = "idle"
    /\ toggles < MaxToggles
    /\ hashlineEnabled' = ~hashlineEnabled
    /\ toggleWrite' = ConfigOf(~hashlineEnabled)
    /\ togglePc' = "writing"
    /\ UNCHANGED <<toolVars, updVars, configFile, hashlineStatus, loadPc, loadContent,
                   toggles, sessionPc>>

\* The write of the handler reaches the file
ToggleWriteLands ==
    /\ togglePc = "writing"
    /\ configFile' = toggleWrite
    /\ togglePc' = "written"
    /\ UNCHANGED <<toolVars, updVars, hashlineEnabled, hashlineStatus, loadPc,
                   loadContent, toggleWrite, toggles, sessionPc>>

\* await writeFile returns: notify; setStatus; the handler completes
ToggleResume ==
    /\ togglePc = "written"
    /\ hashlineStatus' = StatusOf(hashlineEnabled)
    /\ togglePc' = "idle"
    /\ toggles' = toggles + 1
    /\ UNCHANGED <<toolVars, updVars, hashlineEnabled, configFile, loadPc, loadContent,
                   toggleWrite, sessionPc>>

InitMode ==
    /\ InitCall(<<"a">>, MAX_FILE_SIZE, ".ts", <<>>)
    /\ peer = Null
    /\ \E file \in ConfigFiles : ModeInit(file)
    /\ UpdInit

NextMode ==
    \/ LoadSample
    \/ LoadResume
    \/ LoadThen
    \/ SessionStart
    \/ ToggleEntry
    \/ ToggleWriteLands
    \/ ToggleResume

SpecMode == InitMode /\ [][NextMode]_vars

\* C34: once a /hashline command has completed and none is running, the
\* flag, the status entry and the config file agree, however the command
\* was interleaved with the initial load of the config.
C34_ModeConsistency ==
    (toggles >= 1 /\ togglePc = "idle") =>
        /\ hashlineStatus = StatusOf(hashlineEnabled)
        /\ configFile = ConfigOf(hashlineEnabled)


\* ------------------------------------------------------------------------
\* pi-updater: version strings.  A string is held as its chunks: maximal
\* runs of decimal digits, single dots, and other text.
\* ------------------------------------------------------------------------
DigitRuns == {"0", "9", "10"}

\* parseInt(run, 10)
ParseInt(run) ==
    CASE run = "0" -> 0
      [] run = "9" -> 9
      [] run = "10" -> 10

\* Strings "<run>.<run>.<run>", alone or followed by a pre-release tag
TripleVersions ==
    {<<a, ".", b, ".", c>> : <<a, b, c>> \in DigitRuns \X DigitRuns \X DigitRuns}
TaggedVersions == {<<"9", ".", "10", ".", "0", "-beta">>,
                   <<"10", ".", "0", ".", "0", "-beta">>}

\* "unknown", what getCurrentVersion returns when it finds no version
UnknownVersion == <<"unknown">>
\* Strings that do not start with a triple: "", "v9.0.0", "9.10", an npm
\* warning line
OtherStrings == {<<>>, <<"v", "9", ".", "0", ".", "0">>, <<"9", ".", "10">>,
                 <<"npm warn">>}
\* null, and the undefined of a package.json without a version field
NullVersion == <<"(null)">>
UndefinedVersion == <<"(undefined)">>

VersionStrings == TripleVersions \cup TaggedVersions \cup OtherStrings
                      \cup {UnknownVersion}

\* v.match(/^\d+\.\d+\.\d+/)
MatchesTriple(v) ==
    /\ Len(v) >= 5
    /\ v[1] \in DigitRuns /\ v[2] = "." /\ v[3] \in DigitRuns
    /\ v[4] = "." /\ v[5] \in DigitRuns

\* parseVersion
parseVersion(v) ==
    IF ~MatchesTriple(v) THEN <<0, 0, 0>>
    ELSE <<ParseInt(v[1]), ParseInt(v[3]), ParseInt(v[5])>>

RECURSIVE CompareFrom(_, _, _, _)
\* for (i = 0; i < 3; i++) { if (l[i] > c[i]) return true;
\*                           if (l[i] < c[i]) return false; } return atEnd
CompareFrom(c, l, i, atEnd) ==
    IF i > 3 THEN atEnd
    ELSE IF l[i] > c[i] THEN TRUE
    ELSE IF l[i] < c[i] THEN FALSE
    ELSE CompareFrom(c, l, i + 1, atEnd)

\* The comparison answering true for equal versions
isNewer_OrEqual(current, latest) ==
    IF current = UnknownVersion \/ ~MatchesTriple(current) THEN TRUE
    ELSE IF ~MatchesTriple(latest) THEN FALSE
    ELSE CompareFrom(parseVersion(current), parseVersion(latest), 1, TRUE)

\* isNewer(current, latest)
isNewer(current, latest) ==
    IF current = UnknownVersion \/ ~MatchesTriple(current) THEN TRUE
    ELSE IF ~MatchesTriple(latest) THEN FALSE
    ELSE CompareFrom(parseVersion(current), parseVersion(latest), 1, FALSE)


\* ------------------------------------------------------------------------
\* pi-updater: the /update-pi handler
\* ------------------------------------------------------------------------
PackageManagers == {"npm", "fnm", "bun", "yarn", "pnpm"}

\* `${pkgManager.command} ${pkgManager.args.join(" ")}`
fullCommand(name) ==
    CASE name \in {"npm", "fnm"} -> "npm install -g PACKAGE@latest"
      [] name = "bun" -> "bun update -g PACKAGE"
      [] name = "yarn" -> "yarn global add PACKAGE@latest"
      [] name = "pnpm" -> "pnpm update -g PACKAGE"

BoolText(b) == IF b THEN "true" ELSE "false"

\* The handler is called: setStatus; detectPackageManager is awaited
UpdateEntry ==
    /\ updPc = "idle"
    /\ updStatus' = "Detecting package manager..."
    /\ updPc' = "detecting"
    /\ UNCHANGED <<toolVars, modeVars, pkgManager, npmAvailable, currentVersion,
                   latestVersion, newer, answerNpm, answerUpdate, installs,
                   updNotice>>

\* performUpdate up to its first await: setStatus("Checking for updates...")
\* (the conjuncts on updStatus and updPc of the steps that call it)
StartPerformUpdate ==
    /\ updStatus' = "Checking for updates..."
    /\ updPc' = "versions"

\* detectPackageManager returned a manager or null
DetectDone ==
    /\ updPc = "detecting"
    /\ \E m \in PackageManagers \cup {"null"} :
          /\ pkgManager' = m
          /\ IF m = "null"
             THEN updStatus' = "Checking for npm..." /\ updPc' = "checking_npm"
             ELSE StartPerformUpdate
    /\ UNCHANGED <<toolVars, modeVars, npmAvailable, currentVersion,
                   latestVersion, newer, answerNpm, answerUpdate, installs,
                   updNotice>>

\* isCommandAvailable("npm") returned: the fallback confirmation opens, or
\* the handler gives up
NpmCheckDone ==
    /\ updPc = "checking_npm"
    /\ \E avail \in {"yes", "no"} :
          /\ npmAvailable' = avail
          /\ IF avail = "yes"
             THEN updPc' = "confirm_npm" /\ UNCHANGED <<updStatus, updNotice>>
             ELSE /\ updStatus' = Undefined
                  /\ updNotice' = "could_not_detect"
                  /\ updPc' = "done"
    /\ UNCHANGED <<toolVars, modeVars, pkgManager, currentVersion,
                   latestVersion, newer, answerNpm, answerUpdate, installs>>

\* The user answered "Use npm to update?"
ConfirmNpmDone ==
    /\ updPc = "confirm_npm"
    /\ \E useNpm \in {"yes", "no"} :
          /\ answerNpm' = useNpm
          /\ IF useNpm = "no"
             THEN /\ updStatus' = Undefined
                  /\ updNotice' = "cancelled_with_instructions"
                  /\ updPc' = "done"
                  /\ UNCHANGED pkgManager
             ELSE /\ pkgManager' = "npm"
                  /\ StartPerformUpdate
                  /\ UNCHANGED updNotice
    /\ UNCHANGED <<toolVars, modeVars, npmAvailable, currentVersion,
                   latestVersion, newer, answerUpdate, installs>>

\* Both version lookups returned: setStatus(undefined); no latest version,
\* not newer, or the update confirmation opens.  A package.json without a
\* version string makes isNewer throw on current.match.
VersionsDone ==
    /\ updPc = "versions"
    /\ \E cur \in VersionStrings \cup {UndefinedVersion},
          lat \in (VersionStrings \ {UnknownVersion}) \cup {NullVersion} :
          /\ currentVersion' = cur
          /\ latestVersion' = lat
          /\ updStatus' = Undefined
          /\ IF lat = NullVersion \/ lat = <<>>
             THEN /\ updNotice' = "fetch_failed"
                  /\ updPc' = "done"
                  /\ UNCHANGED newer
             ELSE IF cur = UndefinedVersion
             THEN /\ updNotice' = updNotice
                  /\ updPc' = "threw"
                  /\ UNCHANGED newer
             ELSE /\ newer' = BoolText(isNewer(cur, lat))
                  /\ IF ~isNewer(cur, lat)
                     THEN updNotice' = "already_latest" /\ updPc' = "done"
                     ELSE updNotice' = updNotice /\ updPc' = "confirm_update"
    /\ UNCHANGED <<toolVars, modeVars, pkgManager, npmAvailable, answerNpm,
                   answerUpdate, installs>>

\* The update command run whatever the answer
ConfirmUpdateDone_Regardless ==
    /\ updPc = "confirm_update"
    /\ \E confirmed \in {"yes", "no"} :
          /\ answerUpdate' = confirmed
          /\ updStatus' = "Updating..."
          /\ installs' = Append(installs, fullCommand(pkgManager))
          /\ updPc' = "installing"
          /\ UNCHANGED updNotice
    /\ UNCHANGED <<toolVars, modeVars, pkgManager, npmAvailable, currentVersion,
                   latestVersion, newer, answerNpm>>

\* The user answered "Update pi?": cancelled, or setStatus("Updating...")
\* and the update command is executed
ConfirmUpdateDone ==
    /\ updPc = "confirm_update"
    /\ \E confirmed \in {"yes", "no"} :
          /\ answerUpdate' = confirmed
          /\ IF confirmed = "no"
             THEN /\ updNotice' = "cancelled"
                  /\ updPc' = "done"
                  /\ UNCHANGED <<updStatus, installs>>
             ELSE /\ updStatus' = "Updating..."
                  /\ installs' = Append(installs, fullCommand(pkgManager))
                  /\ updPc' = "installing"
                  /\ UNCHANGED updNotice
    /\ UNCHANGED <<toolVars, modeVars, pkgManager, npmAvailable, currentVersion,
                   latestVersion, newer, answerNpm>>

\* The update command ended, the status kept when it failed
InstallDone_KeepOnFailure ==
    /\ updPc = "installing"
    /\ \E ok \in BOOLEAN :
          /\ updStatus' = IF ok THEN Undefined ELSE updStatus
          /\ updNotice' = IF ok THEN "updated" ELSE "update_failed"
    /\ updPc' = "done"
    /\ UNCHANGED <<toolVars, modeVars, pkgManager, npmAvailable, currentVersion,
                   latestVersion, newer, answerNpm, answerUpdate, installs>>

\* The update command ended or threw: setStatus(undefined); notify
InstallDone ==
    /\ updPc = "installing"
    /\ \E ok \in BOOLEAN :
          /\ updStatus' = Undefined
          /\ updNotice' = IF ok THEN "updated" ELSE "update_failed"
    /\ updPc' = "done"
    /\ UNCHANGED <<toolVars, modeVars, pkgManager, npmAvailable, currentVersion,
                   latestVersion, newer, answerNpm, answerUpdate, installs>>

InitUpdate ==
    /\ InitCall(<<"a">>, MAX_FILE_SIZE, ".ts", <<>>)
    /\ peer = Null
    /\ ModeInit("off")
    /\ UpdInit

NextUpdate ==
    \/ UpdateEntry
    \/ DetectDone
    \/ NpmCheckDone
    \/ ConfirmNpmDone
    \/ VersionsDone
    \/ ConfirmUpdateDone
    \/ InstallDone

SpecUpdate == InitUpdate /\ [][NextUpdate]_vars

\* The handler has returned or thrown
UpdateFinished == updPc \in {"done", "threw"}

\* C35: the update command is executed at most once, and only when the
\* latest version was fetched, isNewer judged it newer than the current
\* one and the user answered yes to "Update pi?" (and, when no package
\* manager was detected, yes to the npm fallback); after a declined
\* confirmation the run is over and nothing was executed.
C35_UpdateRequiresConsent ==
    /\ Len(installs) <= 1
    /\ installs # <<>> =>
          /\ latestVersion \notin {NullVersion, <<>>}
          /\ newer = "true"
          /\ isNewer(currentVersion, latestVersion)
          /\ answerUpdate = "yes"
          /\ answerNpm # "no"
          /\ npmAvailable = Undefined \/ answerNpm = "yes"
          /\ installs[1] = fullCommand(pkgManager)
    /\ (answerUpdate = "no" \/ answerNpm = "no") =>
          /\ installs = <<>>
          /\ updPc = "done"

\* The update ran after no manager was detected and both questions were
\* answered yes
C35_Witness ==
    /\ updPc = "done"
    /\ installs = <<"npm install -g PACKAGE@latest">>
    /\ npmAvailable = "yes"
    /\ answerNpm = "yes"
    /\ answerUpdate = "yes"
    /\ updNotice = "updated"


\* C36: whenever the /update-pi handler has finished (detection failed,
\* a confirmation declined, version fetch failed, already up to date,
\* update succeeded, update command failed) the "pi-updater" status entry
\* is undefined.
C36_StatusAlwaysCleared ==
    UpdateFinished => updStatus = Undefined

\* The handler finished after the update command failed
C36_Witness ==
    /\ updPc = "done"
    /\ updNotice = "update_failed"
    /\ installs # <<>>
    /\ updStatus = Undefined


\* C37: whenever isNewer was called with a latest version that does not
\* start with a numeric major.minor.patch triple it returned false,
\* whatever the current version was ("unknown" and non-semver strings
\* included).
C37_NeverProposesInvalid ==
    (newer # Undefined /\ ~MatchesTriple(latestVersion)) => newer = "false"


\* The triple the version starts with, as numbers
TripleOf(v) == <<ParseInt(v[1]), ParseInt(v[3]), ParseInt(v[5])>>

\* Lexicographic order on number triples: l is greater than c
TripleGreater(l, c) ==
    \/ l[1] > c[1]
    \/ l[1] = c[1] /\ l[2] > c[2]
    \/ l[1] = c[1] /\ l[2] = c[2] /\ l[3] > c[3]

\* C38: for two versions that both start with a numeric
\* major.minor.patch triple, isNewer(current, latest) returned true exactly
\* when latest's triple is lexicographically greater than current's; it is
\* false for versions with equal triples, and isNewer(current, latest) and
\* isNewer(latest, current) are not both true.
C38_StrictVersionOrder ==
    (newer # Undefined /\ MatchesTriple(currentVersion)
                       /\ MatchesTriple(latestVersion)) =>
        /\ newer = BoolText(TripleGreater(TripleOf(latestVersion),
                                          TripleOf(currentVersion)))
        /\ isNewer(currentVersion, latestVersion)
              = TripleGreater(TripleOf(latestVersion), TripleOf(currentVersion))
        /\ TripleOf(currentVersion) = TripleOf(latestVersion) => newer = "false"
        /\ ~(isNewer(currentVersion, latestVersion)
              /\ isNewer(latestVersion, currentVersion))

\* 10.0.0-beta was judged newer than 9.10.0: the components were compared
\* as numbers, not as text, and the tag was ignored
C38_Witness ==
    /\ currentVersion = <<"9", ".", "10", ".", "0">>
    /\ latestVersion = <<"10", ".", "0", ".", "0", "-beta">>
    /\ newer = "true"
    /\ updPc = "confirm_update"

====
